---------------------------- MODULE Spec2Model ----------------------------
(***************************************************************************)
(* A model of photocatalog.py (organize_media and its date resolution).    *)
(*                                                                         *)
(* Python strings that the code parses or formats are modelled as         *)
(* sequences of one-character strings: "-04:30" is                         *)
(*   <<"-", "0", "4", ":", "3", "0">>.                                     *)
(***************************************************************************)
EXTENDS Integers, Sequences, FiniteSets, TLC

(***************************************************************************)
(* Python's None, where a string is expected: no string at all.            *)
(***************************************************************************)
None == <<"None">>

\* Body(v), with v evaluated once
Let(v, Body(_)) == CHOOSE r \in {Body(x) : x \in {v}} : TRUE

(***************************************************************************)
(* datetime arithmetic (the datetime and timedelta types of the standard   *)
(* library, used at photocatalog.py:134-147 and :180).  A datetime is a    *)
(* record [y, mo, d, h, mi, s]; arithmetic goes through the number of      *)
(* seconds since 1970-01-01 00:00:00.                                      *)
(***************************************************************************)
IsLeap(y) == (y % 4 = 0 /\ y % 100 # 0) \/ y % 400 = 0

DaysInMonth(y, m) ==
    CASE m \in {1, 3, 5, 7, 8, 10, 12} -> 31
      [] m \in {4, 6, 9, 11} -> 30
      [] OTHER -> IF IsLeap(y) THEN 29 ELSE 28

\* days from 1970-01-01 to the civil date y-m-d (proleptic Gregorian)
DaysFromCivil(y, m, d) ==
    Let(IF m <= 2 THEN y - 1 ELSE y, LAMBDA yy :
    Let(yy \div 400, LAMBDA era :
    Let(yy - era * 400, LAMBDA yoe :
        LET mp  == IF m > 2 THEN m - 3 ELSE m + 9
            doy == (153 * mp + 2) \div 5 + d - 1
            doe == yoe * 365 + yoe \div 4 - yoe \div 100 + doy
        IN  era * 146097 + doe - 719468)))

\* the civil date <<y, m, d>> of a day number
CivilFromDays(z0) ==
    Let(z0 + 719468, LAMBDA z :
    Let(z \div 146097, LAMBDA era :
    Let(z - era * 146097, LAMBDA doe :
    Let((doe - doe \div 1460 + doe \div 36524 - doe \div 146096) \div 365, LAMBDA yoe :
    Let(doe - (365 * yoe + yoe \div 4 - yoe \div 100), LAMBDA doy :
    Let((5 * doy + 2) \div 153, LAMBDA mp :
        LET d == doy - (153 * mp + 2) \div 5 + 1
            m == IF mp < 10 THEN mp + 3 ELSE mp - 9
            y == yoe + era * 400
        IN  <<IF mp >= 10 THEN y + 1 ELSE y, m, d>>))))))

\* datetime -> seconds since 1970-01-01 00:00:00
ToSeconds(dt) ==
    ((DaysFromCivil(dt.y, dt.mo, dt.d) * 24 + dt.h) * 60 + dt.mi) * 60 + dt.s

\* seconds since 1970-01-01 00:00:00 -> datetime (datetime.fromtimestamp, and the
\* normalisation datetime.__sub__ performs)
FromSeconds(t0) ==
    Let(t0, LAMBDA t :
    Let(CivilFromDays(t \div 86400), LAMBDA c :
        LET rem == t % 86400
        IN  [y |-> c[1], mo |-> c[2], d |-> c[3],
             h |-> rem \div 3600, mi |-> (rem % 3600) \div 60, s |-> rem % 60]))

\* timedelta(hours=h, minutes=m), in seconds
timedelta(hours, minutes) == hours * 3600 + minutes * 60

(***************************************************************************)
(* Character strings.                                                      *)
(***************************************************************************)
Digit == {"0", "1", "2", "3", "4", "5", "6", "7", "8", "9"}

Digits == <<"0", "1", "2", "3", "4", "5", "6", "7", "8", "9">>

DigitChar(n) == Digits[n + 1]

DigitVal(c) == (CHOOSE i \in 1..10 : Digits[i] = c) - 1

\* the value of a sequence of digits
DigitsVal(cs) ==
    LET upto[k \in 0..Len(cs)] ==
            IF k = 0 THEN 0 ELSE upto[k - 1] * 10 + DigitVal(cs[k])
    IN  upto[Len(cs)]

AllDigits(cs) == cs # <<>> /\ \A i \in 1..Len(cs) : cs[i] \in Digit

\* n formatted with w digits, zero padded ("%02d", "%04d"), for n < 10^w
Pad(n0, w) ==
    Let(n0, LAMBDA n :
        LET pow10[k \in 0..w] == IF k = 0 THEN 1 ELSE 10 * pow10[k - 1]
        IN  [i \in 1..w |-> DigitChar((n \div pow10[w - i]) % 10)])

\* str.split(sep): the fields between the occurrences of the character sep
split(cs, sep) ==
    Let({i \in 1..Len(cs) : cs[i] = sep}, LAMBDA at :
        LET n == Cardinality(at)
            \* the position of the k-th separator; 0 and Len(cs) + 1 bound the string
            pos(k) ==
                IF k = 0 THEN 0
                ELSE IF k = n + 1 THEN Len(cs) + 1
                ELSE CHOOSE i \in at : Cardinality({j \in at : j < i}) = k - 1
        IN  [k \in 1..(n + 1) |-> SubSeq(cs, pos(k - 1) + 1, pos(k) - 1)])

\* str.strip(): without leading and trailing blanks
strip(cs) ==
    LET solid == {i \in 1..Len(cs) : cs[i] # " "}
    IN  IF solid = {} THEN <<>>
        ELSE SubSeq(cs, CHOOSE i \in solid : \A j \in solid : i <= j,
                        CHOOSE i \in solid : \A j \in solid : i >= j)

\* int(str): blanks around are ignored, one optional sign, then digits only;
\* anything else raises ValueError (ok is FALSE).  int("-00") is 0: the sign of a zero is lost.
int(cs) ==
    Let(strip(cs), LAMBDA t :
        LET neg  == t # <<>> /\ t[1] = "-"
            body == IF t # <<>> /\ t[1] \in {"+", "-"} THEN Tail(t) ELSE t
        IN  IF AllDigits(body)
            THEN [ok |-> TRUE,
                  v |-> IF neg THEN 0 - DigitsVal(body) ELSE DigitsVal(body)]
            ELSE [ok |-> FALSE, v |-> 0])

(***************************************************************************)
(* strptime / strftime.  A date-time string has the fixed layout           *)
(* YYYY?MM?DD HH:MM:SS (19 characters), ? being the date separator.        *)
(***************************************************************************)
\* a faulty variant of Epoch1970: another date
Epoch2000 == [y |-> 2000, mo |-> 1, d |-> 1, h |-> 0, mi |-> 0, s |-> 0]

\* line 158: datetime.strptime("1970:01:01 00:00:00", "%Y:%m:%d %H:%M:%S")
Epoch1970 == [y |-> 1970, mo |-> 1, d |-> 1, h |-> 0, mi |-> 0, s |-> 0]

\* datetime.strptime(str, "%Y<sep>%m<sep>%d %H:%M:%S"): [ok, dt]; ok is FALSE for a
\* ValueError (dt is then no result)
strptime(str, sep) ==
    IF /\ Len(str) = 19
       /\ \A i \in {1, 2, 3, 4, 6, 7, 9, 10, 12, 13, 15, 16, 18, 19} : str[i] \in Digit
       /\ str[5] = sep /\ str[8] = sep /\ str[11] = " "
       /\ str[14] = ":" /\ str[17] = ":"
    THEN Let([y  |-> DigitsVal(SubSeq(str, 1, 4)),
              mo |-> DigitsVal(SubSeq(str, 6, 7)),
              d  |-> DigitsVal(SubSeq(str, 9, 10)),
              h  |-> DigitsVal(SubSeq(str, 12, 13)),
              mi |-> DigitsVal(SubSeq(str, 15, 16)),
              s  |-> DigitsVal(SubSeq(str, 18, 19))],
             LAMBDA dt :
                 IF /\ dt.y >= 1 /\ dt.mo \in 1..12
                    /\ dt.d >= 1 /\ dt.d <= DaysInMonth(dt.y, dt.mo)
                    /\ dt.h <= 23 /\ dt.mi <= 59 /\ dt.s <= 59
                 THEN [ok |-> TRUE, dt |-> dt]
                 ELSE [ok |-> FALSE, dt |-> Epoch1970])
    ELSE [ok |-> FALSE, dt |-> Epoch1970]

\* dt.strftime("%Y-%m-%d %H:%M:%S%z"); %z is "+0000" for an aware UTC datetime
\* and empty for a naive one
strftime(dt0, aware) ==
    Let(dt0, LAMBDA dt :
    Pad(dt.y, 4) \o <<"-">> \o Pad(dt.mo, 2) \o <<"-">> \o Pad(dt.d, 2) \o <<" ">>
      \o Pad(dt.h, 2) \o <<":">> \o Pad(dt.mi, 2) \o <<":">> \o Pad(dt.s, 2)
      \o (IF aware THEN <<"+", "0", "0", "0", "0">> ELSE <<>>))

(***************************************************************************)
(* Date resolution: UTC_from_exif, get_file_ctime, extract_exif,           *)
(* get_file_datetime_from_exif.                                            *)
(*                                                                         *)
(* What the functions read of a file is a record                           *)
(*   [exif_ok, DateTimeOriginal, OffsetTimeOriginal,                       *)
(*    stat_ok, st_ctime, st_mtime]                                         *)
(* exif_ok: piexif.load succeeds; the two tags are strings, or None when   *)
(* the Exif IFD has no such tag; stat_ok: os.stat succeeds; st_ctime and   *)
(* st_mtime are seconds since 1970-01-01 00:00:00 local time.              *)
(***************************************************************************)
ZeroOffset == <<"0", "0", ":", "0", "0">>

\* Python truthiness of an optional string: neither None nor ""
Truthy(str) == str # None /\ str # <<>>

\* offset_hours, offset_minutes = map(int, offset.split(':')): the timedelta of
\* the two numbers, or a ValueError (not two fields, or a field int() rejects)
offset_timedelta(offset) ==
    Let(split(offset, ":"), LAMBDA parts :
        IF Len(parts) # 2 THEN [ok |-> FALSE, v |-> 0]
        ELSE Let(<<int(parts[1]), int(parts[2])>>, LAMBDA hm :
                 IF hm[1].ok /\ hm[2].ok
                 THEN [ok |-> TRUE, v |-> timedelta(hm[1].v, hm[2].v)]
                 ELSE [ok |-> FALSE, v |-> 0]))

UTC_from_exif(original, offset) ==
    Let(strptime(original, ":"), LAMBDA p1 :
    Let(IF p1.ok THEN p1 ELSE strptime(original, "-"), LAMBDA parsed :
    Let(offset_timedelta(IF Truthy(offset) THEN offset ELSE ZeroOffset), LAMBDA td :
        IF ~parsed.ok \/ ~td.ok
        THEN \* except ValueError: "reseting to 1970"
             strftime(Epoch1970, FALSE)
        ELSE LET utc_time == FromSeconds(ToSeconds(parsed.dt) - td.v)
             IN  strftime(utc_time, TRUE))))

get_file_ctime(file) ==
    IF file.stat_ok THEN strftime(FromSeconds(file.st_ctime), FALSE) ELSE None

\* re.match(r"^\s*:", str)
LeadingColon(str) ==
    \E k \in 1..Len(str) : str[k] = ":" /\ \A j \in 1..(k - 1) : str[j] = " "

\* the info dictionary; a key the dictionary lacks is None here
extract_exif(file) ==
    Let(IF file.exif_ok
        THEN [DateTimeOriginal   |-> file.DateTimeOriginal,
              OffsetTimeOriginal |-> file.OffsetTimeOriginal]
        ELSE [DateTimeOriginal   |-> get_file_ctime(file),
              OffsetTimeOriginal |-> ZeroOffset],
        LAMBDA info :
            IF info.OffsetTimeOriginal # None /\ LeadingColon(info.OffsetTimeOriginal)
            THEN [info EXCEPT !.OffsetTimeOriginal = ZeroOffset]
            ELSE info)

get_file_datetime_from_exif(file) ==
    Let(extract_exif(file), LAMBDA tags :
        IF Truthy(tags.DateTimeOriginal)
        THEN UTC_from_exif(tags.DateTimeOriginal,
                           IF tags.OffsetTimeOriginal = None THEN ZeroOffset
                           ELSE tags.OffsetTimeOriginal)
        ELSE get_file_ctime(file))

\* organize_media: day_folder_name = file_dt.split(' ')[0]
day_folder_name(file_dt) == split(file_dt, " ")[1]

\* organize_media: target_day_dir = dest_base_dir/year_str/day_folder_name,
\* as the pair <<year_str, day_folder_name>>
target_day_dir(file_dt) ==
    Let(day_folder_name(file_dt), LAMBDA day :
        <<split(day, "-")[1], day>>)

(***************************************************************************)
(* File names, extensions, contents.                                       *)
(*                                                                         *)
(* A file name is [stem, sfx, ext]: "img_1.jpg" is                         *)
(* [stem |-> "img", sfx |-> <<1>>, ext |-> ".jpg"]; os.path.splitext cuts  *)
(* before ext.  A content is [id, whole]; a file that a failed transfer    *)
(* left truncated has whole = FALSE.                                       *)
(***************************************************************************)
ALL_EXTENSIONS ==
    {".jpg", ".jpeg", ".png", ".gif", ".bmp", ".tiff", ".webp", ".heic", ".heif",
     ".dng", ".cib", ".nef", ".nrw", ".orf", ".oif", ".cr2", ".cr3", ".craw",
     ".raw", ".rw2", ".fff", ".3pr", ".3fr", ".arw", ".sr2", ".srf", ".rwl",
     ".raf", ".srw", ".avi", ".mp4", ".mov"}

VIDEO_EXTENSIONS == {".avi", ".mp4", ".mov"}

\* str.lower() on the extensions the model uses
lower(ext) ==
    CASE ext = ".JPG" -> ".jpg"
      [] ext = ".MOV" -> ".mov"
      [] ext = ".TXT" -> ".txt"
      [] OTHER -> ext

\* item_name.lower().endswith(ALL_EXTENSIONS)
is_supported(name) == lower(name.ext) \in ALL_EXTENSIONS

\* f"{name}_{name_collision_counter}{ext}" with name, ext = splitext(original_filename)
suffixed(original_filename, name_collision_counter) ==
    [original_filename EXCEPT !.sfx = Append(@, name_collision_counter)]

\* get_file_hash of a readable file: the MD5 digest of its whole content
get_file_hash(content) ==
    <<"md5", content.id, IF content.whole THEN "whole" ELSE "truncated">>

(***************************************************************************)
(* Bounds and sample values of the model.                                  *)
(***************************************************************************)
\* number of source directories (a chain root, root/a, root/a/b, ...), each
\* holding at most one file: the number of source files of a run
MaxFiles == 2

\* number of files under the destination root before the first run
MaxPre == 1

\* number of filesystem calls that fail in one run
MaxFaults == 1

\* "YYYY<sep>MM<sep>DD HH:MM:SS"
DateStr(y, mo, d, h, mi, s, sep) ==
    Pad(y, 4) \o <<sep>> \o Pad(mo, 2) \o <<sep>> \o Pad(d, 2) \o <<" ">>
      \o Pad(h, 2) \o <<":">> \o Pad(mi, 2) \o <<":">> \o Pad(s, 2)

\* a photo with capture time 2023:07:15 14:30:00 and offset -04:00
MetaExif ==
    [exif_ok |-> TRUE,
     DateTimeOriginal |-> DateStr(2023, 7, 15, 14, 30, 0, ":"),
     OffsetTimeOriginal |-> <<"-", "0", "4", ":", "0", "0">>,
     stat_ok |-> TRUE, st_ctime |-> 1700000000, st_mtime |-> 1700000000]

\* a file without readable metadata, status change 2022-01-01 00:00:00,
\* last modification 2021-12-25 00:00:00
MetaNone ==
    [exif_ok |-> FALSE, DateTimeOriginal |-> None, OffsetTimeOriginal |-> None,
     stat_ok |-> TRUE, st_ctime |-> 1640995200, st_mtime |-> 1640390400]

\* a photo whose capture time is written 2023/07/15 14:30:00
MetaBad ==
    [exif_ok |-> TRUE,
     DateTimeOriginal |-> DateStr(2023, 7, 15, 14, 30, 0, "/"),
     OffsetTimeOriginal |-> <<"+", "0", "1", ":", "0", "0">>,
     stat_ok |-> TRUE, st_ctime |-> 1700000000, st_mtime |-> 1700000000]

\* the metadata of the sample files, by label; "bad" is used in SpecEpoch only
MetaLabels == {"exif", "none"}
MetaLabelsEpoch == MetaLabels \cup {"bad"}
MetaOf(label) ==
    IF label = "exif" THEN MetaExif ELSE IF label = "bad" THEN MetaBad ELSE MetaNone

\* get_file_datetime_from_exif on a sample file, os.stat failing or not
\* (the function's values on the samples, computed once)
ResolvedDate ==
    [label \in MetaLabelsEpoch, stat_fails \in BOOLEAN |->
        get_file_datetime_from_exif(
            IF stat_fails THEN [MetaOf(label) EXCEPT !.stat_ok = FALSE]
            ELSE MetaOf(label))]

\* target_day_dir of the dates the samples resolve to
ResolvedDir ==
    [label \in MetaLabelsEpoch |-> target_day_dir(ResolvedDate[label, FALSE])]

\* Contents are told apart by a label only.  The i-th source file takes one of
\* the labels 1..i, which covers every pattern of equal and different contents
\* among the source files; a destination file has one of these or another one.
Content(id) == [id |-> id, whole |-> TRUE]
SrcContents(i) == {Content(id) : id \in 1..i}
PreContents == {Content(id) : id \in 1..(MaxFiles + 1)}

ImgJpg  == [stem |-> "img",   sfx |-> <<>>,  ext |-> ".jpg"]
Img1Jpg == [stem |-> "img",   sfx |-> <<1>>, ext |-> ".jpg"]
ClipMov == [stem |-> "clip",  sfx |-> <<>>,  ext |-> ".MOV"]
NotesTxt == [stem |-> "notes", sfx |-> <<>>, ext |-> ".txt"]

SrcNames == {ImgJpg, ClipMov, NotesTxt}
PreNames == {ImgJpg, Img1Jpg, ClipMov}

\* the day directories the sample metadata resolves to
DayDirs == {ResolvedDir[label] : label \in MetaLabels}

NoFile == [present |-> FALSE]

SrcFile(name, content, meta) ==
    [present |-> TRUE, name |-> name, content |-> content, meta |-> meta]

\* What the i-th source directory may hold: nothing, or one file.  A file with
\* an unsupported extension is always the same one: the run never reads it.
SrcChoices(i) ==
    {NoFile} \cup {SrcFile(NotesTxt, Content(1), "none")}
      \cup {SrcFile(n, c, m) : n \in SrcNames \ {NotesTxt}, c \in SrcContents(i),
                               m \in MetaLabels}

\* the faults one file's processing can meet (at most one per file in the model)
Faults == {"none", "stat", "hash", "read", "remove", "makedirs",
           "transfer_nothing", "transfer_truncated", "transfer_complete"}

(***************************************************************************)
(* State.                                                                  *)
(***************************************************************************)
VARIABLES
    dry_run, copy_mode, delete_source_duplicates,   \* organize_media's arguments
    dest_root,      \* "absent" or "dir": dest_base_dir on disk
    day_dirs,       \* DayDirs -> "absent", "dir" or "file": what is at a day directory's path
    dest_files,     \* the files under dest_base_dir: a set of [dir, name, content]
    src_files,      \* 1..MaxFiles -> the file of the i-th source directory, or NoFile
    src_dirs,       \* the source directories on disk (1 is source_dir itself)
    processed_file_hashes,
    files_processed, files_transferred, files_skipped_duplicates,
    files_renamed, files_errored, dups_removed,
    pc,             \* "start", "loop", "done", "aborted"; "probe" in SpecDate, "trips" in SpecTrips
    idx,            \* the source directory the walk is at
    log,            \* what the run logged for each source entry, in order
    fault_count,    \* the number of filesystem calls of this run that failed
    initial,        \* the filesystem as it was when this run started
    env_faults,     \* whether filesystem calls may fail at all
    reports,        \* the summaries of the finished runs, in order
    unreadable,     \* the destination files the scan at startup could not read
    exit_status,    \* <<>> while the process runs, then <<its exit status>>
    probe,          \* date resolution applied to one file (SpecDate)
    trips           \* the state of triphistory.py (SpecTrips, SpecPre)

flags == <<dry_run, copy_mode, delete_source_duplicates>>
filesystem == <<dest_root, day_dirs, dest_files, src_files, src_dirs>>
counters == <<files_processed, files_transferred, files_skipped_duplicates,
              files_renamed, files_errored, dups_removed>>
vars == <<flags, filesystem, counters, processed_file_hashes, pc, idx, log,
          fault_count, initial, env_faults, reports, unreadable, exit_status, probe, trips>>

\* the filesystem as one value
Snapshot ==
    [dest_root |-> dest_root, day_dirs |-> day_dirs, dest_files |-> dest_files,
     src_files |-> src_files, src_dirs |-> src_dirs]

NoProbe == [done |-> FALSE]

\* triphistory.py is not running
NoTrips == [pc |-> "idle"]

\* the process has not terminated; it has terminated with status n
Running == <<>>
Exited(n) == <<n>>

(***************************************************************************)
(* Initial states: any arguments, any source tree of at most MaxFiles      *)
(* files, any destination tree of at most MaxPre files.                    *)
(***************************************************************************)
\* the sets of at most n destination files, no two at the same path
RECURSIVE FileSets(_)
FileSets(n) ==
    IF n = 0 THEN {{}}
    ELSE LET less == FileSets(n - 1)
             more == {fs \cup {f} : fs \in less,
                        f \in [dir : DayDirs, name : PreNames, content : PreContents]}
         IN  less \cup
             {fs \in more : \A f, g \in fs : (f.dir = g.dir /\ f.name = g.name) => f = g}

\* the destination trees: root missing (then nothing below it), or a root
\* with day directory paths absent, directories or (not a directory) files,
\* and files only in directories
DestTrees ==
    {[dest_root |-> "absent", day_dirs |-> [d \in DayDirs |-> "absent"],
      dest_files |-> {}]}
    \cup
    {[dest_root |-> "dir", day_dirs |-> kf[1], dest_files |-> kf[2]] :
        kf \in {x \in [DayDirs -> {"absent", "dir", "file"}] \X FileSets(MaxPre) :
                  \A f \in x[2] : x[1][f.dir] = "dir"}}

InitRun ==
    /\ dry_run \in BOOLEAN
    /\ copy_mode \in BOOLEAN
    /\ delete_source_duplicates \in BOOLEAN
    /\ \E t \in DestTrees :
         /\ dest_root = t.dest_root
         /\ day_dirs = t.day_dirs
         /\ dest_files = t.dest_files
    /\ \/ /\ src_files \in {sf \in [1..MaxFiles -> UNION {SrcChoices(i) : i \in 1..MaxFiles}] :
                                \A i \in 1..MaxFiles : sf[i] \in SrcChoices(i)}
          /\ src_dirs = 1..MaxFiles
       \/ \* source_dir is missing or is not a directory
          /\ src_files = [i \in 1..MaxFiles |-> NoFile]
          /\ src_dirs = {}
    /\ processed_file_hashes = {}
    /\ files_processed = 0 /\ files_transferred = 0
    /\ files_skipped_duplicates = 0 /\ files_renamed = 0
    /\ files_errored = 0 /\ dups_removed = 0
    /\ pc = "start"
    /\ idx = 1
    /\ log = <<>>
    /\ fault_count = 0
    /\ initial = Snapshot
    /\ reports = <<>>
    /\ unreadable = {}
    /\ exit_status = Running
    /\ probe = NoProbe
    /\ trips = NoTrips

Init == InitRun /\ env_faults = TRUE

(***************************************************************************)
(* organize_media, the loop over the source files (lines 318-421).         *)
(***************************************************************************)
\* a faulty variant of path_exists: no path is seen as taken
path_exists_never(files, dir, name) == FALSE

\* os.path.exists(target_filepath)
path_exists(files, dir, name) == \E f \in files : f.dir = dir /\ f.name = name

file_at(files, dir, name) == CHOOSE f \in files : f.dir = dir /\ f.name = name

\* The while loop of lines 367-388: the first name among original, original_1,
\* original_2, ... that is free in the day directory, unless a file met on the
\* way has the source's digest.  tries is name_collision_counter - 1 at the end.
RECURSIVE name_collision(_, _, _, _, _, _, _)
name_collision(files, dir, original_filename, source_file_hash, current_target_filename, name_collision_counter, read_fails) ==
    IF path_exists(files, dir, current_target_filename)
    THEN LET existing_target_hash ==
                 IF read_fails THEN None
                 ELSE get_file_hash(file_at(files, dir, current_target_filename).content)
         IN  IF existing_target_hash = source_file_hash
             THEN [duplicate |-> TRUE, name |-> current_target_filename,
                   tries |-> name_collision_counter - 1]
             ELSE name_collision(files, dir, original_filename, source_file_hash,
                                 suffixed(original_filename, name_collision_counter),
                                 name_collision_counter + 1, read_fails)
    ELSE [duplicate |-> FALSE, name |-> current_target_filename,
          tries |-> name_collision_counter - 1]

NoDir == <<>>
NoName == [stem |-> "", sfx |-> <<>>, ext |-> ""]

\* a faulty variant of in_index: every source file is taken for a duplicate
in_index_always(source_file_hash, hashes) == TRUE

\* line 351: if source_file_hash in processed_file_hashes
in_index(source_file_hash, hashes) == source_file_hash \in hashes

\* a faulty variant of add_hash: the digest of a transferred file is not recorded
add_hash_forgotten(hashes, source_file_hash) == hashes

\* lines 413 and 420: processed_file_hashes.add(source_file_hash)
add_hash(hashes, source_file_hash) == hashes \cup {source_file_hash}

\* a faulty variant of renamed_increment: one increment for every name tried
renamed_increment_each_try(tries) == tries

\* lines 386-387: files_renamed += 1 when name_collision_counter == 1, that is
\* once for a file, however many names were tried
renamed_increment(tries) == IF tries >= 1 THEN 1 ELSE 0

\* a faulty variant of deletes_duplicates: the deletion is not guarded by the dry run
deletes_duplicates_in_dry_run == delete_source_duplicates

\* lines 354 and 373: if delete_source_duplicates and not dry_run
deletes_duplicates == delete_source_duplicates /\ ~dry_run

\* lines 393-396: os.makedirs(target_day_dir) is called when nothing is at the
\* path and the run is not a dry run
makes_day_dir(dir) == day_dirs[dir] = "absent" /\ ~dry_run

\* a faulty variant of source_after_transfer: the source is gone in both modes
source_after_transfer_moved(f) == NoFile

\* lines 315 and 412: what is left in the source after file_operation_func
\* succeeded: shutil.copy2 leaves the file, shutil.move does not
source_after_transfer(f) == IF copy_mode THEN f ELSE NoFile

\* a faulty variant of source_after_failed_transfer: the source is lost
source_after_failed_transfer_lost(f) == NoFile

\* lines 412 and 415-418: a transfer that raised has left the source where it
\* was (shutil.copy2 does not touch it; shutil.move removes it last, after the
\* copy succeeded, and raises if the removal fails)
source_after_failed_transfer(f) == f

\* a faulty variant of hashes_after_failed_transfer: the digest is recorded
\* before the transfer is known to have succeeded
hashes_after_failed_transfer_added(hashes, source_file_hash) ==
    hashes \cup {source_file_hash}

\* lines 412-413: processed_file_hashes.add follows file_operation_func in the
\* try block, so a transfer that raised leaves the index as it was
hashes_after_failed_transfer(hashes, source_file_hash) == hashes

\* lines 412 and 415-418: what a transfer that raised has left at the target
\* path: nothing, a truncated file, or the whole file (shutil.move across
\* filesystems copies, then removes the source; the removal can fail)
left_by_failed_transfer(files, placed, fault) ==
    CASE fault = "transfer_nothing"   -> files
      [] fault = "transfer_truncated" -> files \cup {[placed EXCEPT !.content.whole = FALSE]}
      [] fault = "transfer_complete"  -> files \cup {placed}

\* a faulty variant of written_at: the file written is cut short
written_at_truncated(files, placed) ==
    files \cup {[placed EXCEPT !.content.whole = FALSE]}

\* line 412: shutil.copy2 and shutil.move write the target path; a file that
\* is at that path is replaced
written_at(files, placed) ==
    {g \in files : ~(g.dir = placed.dir /\ g.name = placed.name)} \cup {placed}

\* a faulty variant of count_errored: the file is not counted as errored
count_errored_forgotten(r, fault) == [r EXCEPT !.outcome = "errored", !.fault = fault]

\* lines 337-339, 347-349, 399-401, 405-407 and 416-418: logging.error(...),
\* files_errored += 1, continue
count_errored(r, fault) ==
    [r EXCEPT !.errored = 1, !.outcome = "errored", !.fault = fault]

\* the kinds of directory entry; an entry without the field kind is a regular
\* file.  "symlink" points to a regular file, "broken_symlink" to nothing.
EntryKinds == {"file", "symlink", "broken_symlink", "dir"}

EntryKind(f) == IF "kind" \in DOMAIN f THEN f.kind ELSE "file"

\* lines 318-319: the entries os.walk lists in files are those that are not
\* directories
in_walk_files(f) == f.present /\ EntryKind(f) # "dir"

\* line 322: os.path.isfile(source_filepath) follows symbolic links
isfile(f) == in_walk_files(f) /\ EntryKind(f) \in {"file", "symlink"}

\* One iteration of the loop on the entry of source directory i, with the
\* filesystem call named by fault failing if the iteration makes it.  The
\* result holds the increments of the counters, the new index, the new
\* destination, what became of the source file, and the log entry.
process_file(i, fault) ==
    LET f    == src_files[i]
        same == [processed |-> 0, transferred |-> 0, skipped |-> 0, renamed |-> 0,
                 errored |-> 0, removed |-> 0,
                 hashes |-> processed_file_hashes,
                 dest_files |-> dest_files, day_dirs |-> day_dirs,
                 src |-> f, outcome |-> "ignored", fault |-> "none",
                 dir |-> NoDir, name |-> NoName, tries |-> 0]
    IN
    \* lines 322-329
    IF ~isfile(f) \/ ~is_supported(f.name) THEN same
    ELSE
    \* lines 331-339
    LET file_dt == ResolvedDate[f.meta, fault = "stat"]
        counted == [same EXCEPT !.processed = 1]
    IN
    IF file_dt = None
    THEN count_errored(counted, fault)
    ELSE
    \* lines 341-349
    LET dir  == ResolvedDir[f.meta]
        source_file_hash == IF fault = "hash" THEN None ELSE get_file_hash(f.content)
        dated == [counted EXCEPT !.dir = dir]
        \* lines 354-360 and 373-378: os.remove(source_filepath)
        del_src    == IF deletes_duplicates /\ fault # "remove" THEN NoFile ELSE f
        del_fault  == IF deletes_duplicates /\ fault = "remove" THEN "remove" ELSE "none"
    IN
    IF source_file_hash = None
    THEN count_errored(dated, fault)
    \* lines 351-361
    ELSE IF in_index(source_file_hash, processed_file_hashes)
    THEN [dated EXCEPT !.skipped = 1, !.outcome = "skipped", !.src = del_src,
                       !.removed = IF del_src = NoFile THEN 1 ELSE 0,
                       !.fault = del_fault]
    ELSE
    \* lines 363-391
    Let(name_collision(dest_files, dir, f.name, source_file_hash, f.name, 1,
                       fault = "read"), LAMBDA nc :
    LET read_fault == IF fault = "read" /\ path_exists(dest_files, dir, f.name)
                      THEN "read" ELSE "none"
        named == [dated EXCEPT !.name = nc.name, !.tries = nc.tries,
                               !.renamed = renamed_increment(nc.tries),
                               !.fault = read_fault]
    IN
    IF nc.duplicate
    THEN [named EXCEPT !.skipped = 1, !.outcome = "skipped", !.src = del_src,
                       !.fault = IF del_fault # "none" THEN del_fault ELSE read_fault]
    \* lines 393-407
    ELSE IF day_dirs[dir] = "file"
    THEN count_errored(named, named.fault)
    ELSE IF makes_day_dir(dir) /\ fault = "makedirs"
    THEN count_errored(named, fault)
    ELSE
    \* lines 409-421
    LET made == IF makes_day_dir(dir) THEN [day_dirs EXCEPT ![dir] = "dir"]
                ELSE day_dirs
        placed == [dir |-> dir, name |-> nc.name, content |-> f.content]
    IN
    IF dry_run
    THEN [named EXCEPT !.transferred = 1, !.outcome = "transferred",
                       !.hashes = add_hash(@, source_file_hash)]
    ELSE IF fault \in {"transfer_nothing", "transfer_truncated", "transfer_complete"}
    THEN count_errored([named EXCEPT !.hashes = hashes_after_failed_transfer(@, source_file_hash),
                                      !.day_dirs = made,
                                      !.dest_files = left_by_failed_transfer(@, placed, fault),
                                      !.src = source_after_failed_transfer(f)],
                       fault)
    ELSE [named EXCEPT !.transferred = 1, !.outcome = "transferred",
                       !.day_dirs = made,
                       !.dest_files = written_at(@, placed),
                       !.hashes = add_hash(@, source_file_hash),
                       !.src = source_after_transfer(f)])

(***************************************************************************)
(* Actions.                                                                *)
(***************************************************************************)
\* a faulty variant of scan_destination: the destination is not scanned
scan_destination_skipped(files, failing) == {}

\* lines 288-295: the digests of the files of the destination that have a
\* supported extension and that get_file_hash can read
scan_destination(files, failing) ==
    {get_file_hash(f.content) : f \in {g \in files : is_supported(g.name) /\ g \notin failing}}

\* the faults the environment may produce now
CanFail == env_faults /\ fault_count < MaxFaults
MayFail(all) == IF CanFail THEN all ELSE {"none"}

\* line 269: os.path.isdir(source_dir)
source_is_dir == 1 \in src_dirs

\* Lines 490-504: organize_media has returned (at line 271, 279 or after the
\* summary), main returns and the interpreter exits with status 0; no path
\* of main calls sys.exit
exit_after_return == Exited(0)

\* Lines 269-307: the checks of the two roots, the scan of the destination
\* into processed_file_hashes (not in a dry run), the counters at zero.
\* root_fault: os.makedirs(dest_base_dir) fails; failing: the destination
\* files get_file_hash cannot read.
Startup ==
    /\ pc = "start"
    /\ \E root_fault \in (IF env_faults /\ MaxFaults > 0 THEN {"none", "makedirs"}
                           ELSE {"none"}) :
       \E failing \in (IF env_faults /\ MaxFaults > 0 /\ root_fault = "none" /\ ~dry_run
                        THEN SUBSET {f \in dest_files : is_supported(f.name)}
                        ELSE {{}}) :
         LET no_source == ~source_is_dir
             creating  == ~no_source /\ dest_root = "absent" /\ ~dry_run
             no_root   == creating /\ root_fault = "makedirs"
             abort     == no_source \/ no_root
         IN  /\ no_source => (root_fault = "none" /\ failing = {})
             /\ dest_root' = IF creating /\ ~abort THEN "dir" ELSE dest_root
             /\ pc' = IF abort THEN "aborted" ELSE "loop"
             /\ exit_status' = IF abort THEN exit_after_return ELSE Running
             /\ processed_file_hashes' =
                    IF dry_run \/ abort THEN {}
                    ELSE scan_destination(dest_files, failing)
             /\ unreadable' = failing
             /\ fault_count' = IF no_root \/ failing # {} THEN 1 ELSE 0
    /\ files_processed' = 0 /\ files_transferred' = 0
    /\ files_skipped_duplicates' = 0 /\ files_renamed' = 0
    /\ files_errored' = 0 /\ dups_removed' = 0
    /\ idx' = 1
    /\ log' = <<>>
    /\ initial' = Snapshot
    /\ UNCHANGED <<flags, day_dirs, dest_files, src_files, src_dirs, env_faults,
                   reports, probe, trips>>

\* One iteration of the loop of lines 318-421.
ProcessFile ==
    /\ pc = "loop"
    /\ idx <= MaxFiles
    /\ \E fault \in MayFail(Faults) :
       \E r \in {process_file(idx, fault)} :
             /\ files_processed' = files_processed + r.processed
             /\ files_transferred' = files_transferred + r.transferred
             /\ files_skipped_duplicates' = files_skipped_duplicates + r.skipped
             /\ files_renamed' = files_renamed + r.renamed
             /\ files_errored' = files_errored + r.errored
             /\ dups_removed' = dups_removed + r.removed
             /\ processed_file_hashes' = r.hashes
             /\ dest_files' = r.dest_files
             /\ day_dirs' = r.day_dirs
             /\ src_files' = [src_files EXCEPT ![idx] = r.src]
             /\ fault_count' = fault_count + (IF r.fault # "none" THEN 1 ELSE 0)
             /\ log' = Append(log, [slot |-> idx, outcome |-> r.outcome,
                                    fault |-> r.fault, dir |-> r.dir, name |-> r.name,
                                    tries |-> r.tries, renamed |-> r.renamed,
                                    file |-> src_files[idx]])
    /\ idx' = idx + 1
    /\ UNCHANGED <<flags, dest_root, src_dirs, pc, initial, env_faults, reports,
                   unreadable, exit_status, probe, trips>>

\* what the summary of lines 435-447 reports, with the arguments of the run
Summary ==
    [dry_run |-> dry_run, copy_mode |-> copy_mode,
     delete_source_duplicates |-> delete_source_duplicates,
     scanned |-> files_processed, transferred |-> files_transferred,
     skipped |-> files_skipped_duplicates, renamed |-> files_renamed,
     removed |-> dups_removed, errored |-> files_errored,
     faults |-> fault_count, initial |-> initial]

\* line 426: filenames of os.walk is not empty for the k-th source directory
holds_file(files, k) == k \in DOMAIN files /\ files[k].present

\* Lines 424-447, after the loop: the removal of empty source directories
\* (os.walk(topdown=False) lists a directory before it walks its
\* subdirectories, so dirnames still names the ones the walk removes), then
\* the summary.  failing: the directories os.rmdir cannot remove.
Finish ==
    /\ pc = "loop"
    /\ idx > MaxFiles
    /\ \E failing \in (IF CanFail THEN SUBSET src_dirs ELSE {{}}) :
         LET pruning   == delete_source_duplicates /\ ~dry_run
             empty     == {k \in src_dirs : ~holds_file(src_files, k) /\ (k + 1) \notin src_dirs}
         IN  /\ src_dirs' = IF pruning THEN src_dirs \ (empty \ failing) ELSE src_dirs
             /\ fault_count' = fault_count
                                + (IF pruning /\ empty \cap failing # {} THEN 1 ELSE 0)
    /\ pc' = "done"
    /\ exit_status' = exit_after_return
    /\ reports' = Append(reports, [Summary EXCEPT !.faults = fault_count'])
    /\ UNCHANGED <<flags, dest_root, day_dirs, dest_files, src_files, counters,
                   processed_file_hashes, idx, log, initial, env_faults, unreadable,
                   probe, trips>>

Next == Startup \/ ProcessFile \/ Finish

Spec == Init /\ [][Next]_vars

\* the run is not stopped from outside: a step that can be taken is taken
SpecFair == Spec /\ WF_vars(Next)

(***************************************************************************)
(* Several invocations, one after the other, on the same two trees, with   *)
(* no filesystem call failing.                                             *)
(***************************************************************************)
MaxRuns == 2

\* Lines 450-500, main: the tool is invoked again, with or without --dry-run,
\* on the trees as the last run left them.
Rerun ==
    /\ pc = "done"
    /\ Len(reports) < MaxRuns
    /\ pc' = "start"
    /\ exit_status' = Running
    /\ dry_run' \in BOOLEAN
    /\ UNCHANGED <<copy_mode, delete_source_duplicates, filesystem, counters,
                   processed_file_hashes, idx, log, fault_count, initial,
                   env_faults, reports, unreadable, probe, trips>>

InitRuns == InitRun /\ env_faults = FALSE

NextRuns == Startup \/ ProcessFile \/ Finish \/ Rerun

SpecRuns == InitRuns /\ [][NextRuns]_vars

(***************************************************************************)
(* Runs on source files whose names differ in letter case only.  A path    *)
(* names a file by the exact characters of its name (path_exists compares  *)
(* names as they are), as on the filesystems of Linux.                     *)
(***************************************************************************)
ImgJpgUpper == [stem |-> "IMG", sfx |-> <<>>, ext |-> ".JPG"]

CaseNames == {ImgJpg, ImgJpgUpper}

InitCase ==
    /\ dry_run \in BOOLEAN
    /\ copy_mode \in BOOLEAN
    /\ delete_source_duplicates \in BOOLEAN
    /\ \E t \in DestTrees :
         /\ dest_root = t.dest_root
         /\ day_dirs = t.day_dirs
         /\ dest_files = t.dest_files
    /\ src_files \in {sf \in [1..MaxFiles -> {SrcFile(n, c, m) : n \in CaseNames,
                                                  c \in SrcContents(MaxFiles),
                                                  m \in MetaLabels}] :
                        \A i \in 1..MaxFiles : sf[i].content \in SrcContents(i)}
    /\ src_dirs = 1..MaxFiles
    /\ processed_file_hashes = {}
    /\ files_processed = 0 /\ files_transferred = 0
    /\ files_skipped_duplicates = 0 /\ files_renamed = 0
    /\ files_errored = 0 /\ dups_removed = 0
    /\ pc = "start"
    /\ idx = 1
    /\ log = <<>>
    /\ fault_count = 0
    /\ initial = Snapshot
    /\ reports = <<>>
    /\ unreadable = {}
    /\ exit_status = Running
    /\ probe = NoProbe
    /\ trips = NoTrips
    /\ env_faults = FALSE

SpecCase == InitCase /\ [][Next]_vars

(***************************************************************************)
(* Runs on a source tree with one more level: below the directories that   *)
(* can hold a file lies a subdirectory that holds none.  No filesystem     *)
(* call fails.                                                             *)
(***************************************************************************)
InitPrune ==
    /\ dry_run \in BOOLEAN
    /\ copy_mode \in BOOLEAN
    /\ delete_source_duplicates \in BOOLEAN
    /\ dest_root = "dir"
    /\ day_dirs = [d \in DayDirs |-> "dir"]
    /\ dest_files \in FileSets(MaxPre)
    /\ src_files \in {sf \in [1..MaxFiles -> UNION {SrcChoices(i) : i \in 1..MaxFiles}] :
                        \A i \in 1..MaxFiles : sf[i] \in SrcChoices(i)}
    /\ src_dirs = 1..(MaxFiles + 1)
    /\ processed_file_hashes = {}
    /\ files_processed = 0 /\ files_transferred = 0
    /\ files_skipped_duplicates = 0 /\ files_renamed = 0
    /\ files_errored = 0 /\ dups_removed = 0
    /\ pc = "start"
    /\ idx = 1
    /\ log = <<>>
    /\ fault_count = 0
    /\ initial = Snapshot
    /\ reports = <<>>
    /\ unreadable = {}
    /\ exit_status = Running
    /\ probe = NoProbe
    /\ trips = NoTrips
    /\ env_faults = FALSE

SpecPrune == InitPrune /\ [][Next]_vars

(***************************************************************************)
(* Runs on a source tree whose entries are regular files, symbolic links   *)
(* and directories, all with the same supported name.  No filesystem call  *)
(* fails.                                                                  *)
(***************************************************************************)
SrcEntry(name, content, meta, kind) ==
    [present |-> TRUE, name |-> name, content |-> content, meta |-> meta, kind |-> kind]

InitLinks ==
    /\ dry_run \in BOOLEAN
    /\ copy_mode \in BOOLEAN
    /\ delete_source_duplicates \in BOOLEAN
    /\ dest_root = "dir"
    /\ day_dirs \in [DayDirs -> {"absent", "dir"}]
    /\ dest_files \in {fs \in FileSets(MaxPre) : \A f \in fs : day_dirs[f.dir] = "dir"}
    /\ src_files \in {sf \in [1..MaxFiles -> {SrcEntry(ImgJpg, c, "none", k) :
                                                  c \in SrcContents(MaxFiles),
                                                  k \in EntryKinds}] :
                        \A i \in 1..MaxFiles : sf[i].content \in SrcContents(i)}
    /\ src_dirs = 1..MaxFiles
    /\ processed_file_hashes = {}
    /\ files_processed = 0 /\ files_transferred = 0
    /\ files_skipped_duplicates = 0 /\ files_renamed = 0
    /\ files_errored = 0 /\ dups_removed = 0
    /\ pc = "start"
    /\ idx = 1
    /\ log = <<>>
    /\ fault_count = 0
    /\ initial = Snapshot
    /\ reports = <<>>
    /\ unreadable = {}
    /\ exit_status = Running
    /\ probe = NoProbe
    /\ trips = NoTrips
    /\ env_faults = FALSE

SpecLinks == InitLinks /\ [][Next]_vars

(***************************************************************************)
(* Runs that receive SIGINT or SIGHUP during the loop.  Lines 68-86 install *)
(* handlers that call sys.exit(0), and the module never imports sys (lines *)
(* 24-33): the handler raises NameError in the main thread, at the point   *)
(* the loop has reached.                                                   *)
(***************************************************************************)
\* where the signal finds the loop: inside get_file_hash (line 344) or inside
\* file_operation_func, part of the target written (line 412)
SignalPoints == {"signal_hash", "signal_transfer"}

\* lines 72 and 83: the exception the handler raises
raised_by_handler == "NameError"

\* line 415: "except Exception" catches NameError (and would not catch the
\* SystemExit of a working sys.exit); lines 244-246: "except IOError" does not
caught_by(clause, exception) ==
    CASE clause = "except Exception" -> exception \in {"NameError", "IOError", "OSError"}
      [] clause = "except IOError"   -> exception \in {"IOError", "OSError"}

\* the interpreter's exit status after an exception nobody caught
exit_after_traceback == Exited(1)

\* The iteration of lines 318-421 on the entry of source directory idx, with
\* one signal delivered during it.
Interrupt ==
    /\ pc = "loop"
    /\ idx <= MaxFiles
    /\ \A k \in 1..Len(log) : log[k].fault \notin SignalPoints
    /\ \E point \in SignalPoints :
       \E r \in {process_file(idx, IF point = "signal_hash" THEN "hash"
                                   ELSE "transfer_truncated")} :
          \* the iteration reaches the point
          /\ r.fault = (IF point = "signal_hash" THEN "hash" ELSE "transfer_truncated")
          /\ LET clause == IF point = "signal_hash" THEN "except IOError"
                           ELSE "except Exception"
                 caught == caught_by(clause, raised_by_handler)
             IN  /\ pc' = IF caught THEN "loop" ELSE "killed"
                 /\ exit_status' = IF caught THEN Running ELSE exit_after_traceback
                 /\ idx' = IF caught THEN idx + 1 ELSE idx
                 /\ files_processed' = files_processed + r.processed
                 /\ files_errored' = files_errored + (IF caught THEN r.errored ELSE 0)
                 /\ dest_files' = (IF point = "signal_transfer" THEN r.dest_files
                                   ELSE dest_files)
                 /\ day_dirs' = (IF point = "signal_transfer" THEN r.day_dirs
                                 ELSE day_dirs)
                 /\ src_files' = [src_files EXCEPT ![idx] = r.src]
                 /\ processed_file_hashes' = r.hashes
                 /\ log' = Append(log, [slot |-> idx,
                                        outcome |-> IF caught THEN r.outcome
                                                    ELSE "interrupted",
                                        fault |-> point, dir |-> r.dir, name |-> r.name,
                                        tries |-> r.tries, renamed |-> r.renamed,
                                        file |-> src_files[idx]])
                 /\ files_renamed' = files_renamed + r.renamed
    /\ UNCHANGED <<flags, dest_root, src_dirs, files_transferred,
                   files_skipped_duplicates, dups_removed, fault_count, initial,
                   env_faults, reports, unreadable, probe, trips>>

InitSignal == InitRun /\ env_faults = FALSE

NextSignal == Startup \/ ProcessFile \/ Finish \/ Interrupt

SpecSignal == InitSignal /\ [][NextSignal]_vars

(***************************************************************************)
(* Runs on photos whose capture time cannot be parsed, with no filesystem  *)
(* call failing.                                                           *)
(***************************************************************************)
DayDirsEpoch == {ResolvedDir[label] : label \in MetaLabelsEpoch}

\* the destination trees: the root with day directories absent or present,
\* and at most one file, in the day directory of the unparseable photos
EpochTrees ==
    {[day_dirs |-> dd, dest_files |-> fs] :
        dd \in [DayDirsEpoch -> {"absent", "dir"}],
        fs \in {{}} \cup {{[dir |-> ResolvedDir["bad"], name |-> n, content |-> c]} :
                             n \in {ImgJpg, Img1Jpg}, c \in PreContents}}

InitEpoch ==
    /\ dry_run \in BOOLEAN
    /\ copy_mode \in BOOLEAN
    /\ delete_source_duplicates \in BOOLEAN
    /\ dest_root = "dir"
    /\ \E t \in EpochTrees :
         /\ \A f \in t.dest_files : t.day_dirs[f.dir] = "dir"
         /\ day_dirs = t.day_dirs
         /\ dest_files = t.dest_files
    /\ src_files \in {sf \in [1..MaxFiles -> {SrcFile(ImgJpg, c, m) :
                                                  c \in SrcContents(MaxFiles),
                                                  m \in {"bad", "exif"}}] :
                        \A i \in 1..MaxFiles : sf[i].content \in SrcContents(i)}
    /\ src_dirs = 1..MaxFiles
    /\ processed_file_hashes = {}
    /\ files_processed = 0 /\ files_transferred = 0
    /\ files_skipped_duplicates = 0 /\ files_renamed = 0
    /\ files_errored = 0 /\ dups_removed = 0
    /\ pc = "start"
    /\ idx = 1
    /\ log = <<>>
    /\ fault_count = 0
    /\ initial = Snapshot
    /\ reports = <<>>
    /\ unreadable = {}
    /\ exit_status = Running
    /\ probe = NoProbe
    /\ trips = NoTrips
    /\ env_faults = FALSE

SpecEpoch == InitEpoch /\ [][Next]_vars

(***************************************************************************)
(* src/triphistory.py: process_trips_from_config_dict, which links the     *)
(* photos of the day directories of a date range into one directory per    *)
(* trip.  The variable trips holds its whole state:                        *)
(*   dry_run, config  the arguments (config: the sequence of trips)        *)
(*   source           the entries of the source tree                       *)
(*   trip_dirs        the trip directories that exist under target         *)
(*   links            the symlinks in them                                 *)
(*   i, todo          the trip being processed, the day directories its    *)
(*                    walk has not visited yet                             *)
(*   linked           photos_linked_for_trip                               *)
(*   skipped          the trips whose directory could not be created       *)
(***************************************************************************)
MaxTrips == 1

\* "%Y-%m-%d" of a date
DayName(y, mo, d) == Pad(y, 4) \o <<"-">> \o Pad(mo, 2) \o <<"-">> \o Pad(d, 2)

\* lines 72-73: datetime.strptime(date_str, "%Y-%m-%d").date()
parse_date(date_str) ==
    [y |-> DigitsVal(SubSeq(date_str, 1, 4)), mo |-> DigitsVal(SubSeq(date_str, 6, 7)),
     d |-> DigitsVal(SubSeq(date_str, 9, 10))]

\* line 207: the order of datetime.date values
date_le(a, b) == DaysFromCivil(a.y, a.mo, a.d) <= DaysFromCivil(b.y, b.mo, b.d)

\* line 202: re.match(r'^\d{4}$', year_dir.name)
is_year_name(name) == Len(name) = 4 /\ AllDigits(name)

\* line 205: re.match(r'^\d{4}-\d{2}-\d{2}$', day_dir.name)
is_day_name(name) ==
    /\ Len(name) = 10
    /\ name[5] = "-" /\ name[8] = "-"
    /\ AllDigits(SubSeq(name, 1, 4))
    /\ AllDigits(SubSeq(name, 6, 7))
    /\ AllDigits(SubSeq(name, 9, 10))

\* str.replace(old, new) for one-character old and new
replace(cs, old, new) == [k \in 1..Len(cs) |-> IF cs[k] = old THEN new ELSE cs[k]]

\* line 186: trip_name.replace("/", "_").replace("\\", "_")
trip_dir_name(trip_name) == replace(replace(trip_name, "/", "_"), "\\", "_")

\* lines 187-188: target_dir / start_date_str[:4] / trip_dir_name
current_trip_target_path(trip) ==
    <<SubSeq(trip.start_date, 1, 4), trip_dir_name(trip.name)>>

\* the trips of the sample configurations
TripNames == {<<"a", "l", "p", "s">>, <<"a", "/", "b", "\\", "c">>}
TripRanges ==
    {[start_date |-> DayName(2023, 7, 14), end_date |-> DayName(2023, 7, 15)],
     [start_date |-> DayName(2023, 7, 15), end_date |-> DayName(2023, 7, 15)]}
TripInfos ==
    {[name |-> n, start_date |-> r.start_date, end_date |-> r.end_date] :
        n \in TripNames, r \in TripRanges}
TripConfigs == UNION {[1..n -> TripInfos] : n \in 1..MaxTrips}

\* the directories of the sample source tree, source/<year>/<day>: three day
\* directories of one year, and one below a directory that is not a year
Year2023 == <<"2", "0", "2", "3">>
Misc == <<"m", "i", "s", "c">>
SourceDayDirs ==
    {[year |-> Year2023, day |-> DayName(2023, 7, 14)],
     [year |-> Year2023, day |-> DayName(2023, 7, 15)],
     [year |-> Year2023, day |-> DayName(2023, 7, 16)],
     [year |-> Misc, day |-> DayName(2023, 7, 15)]}

\* the entries a sample source tree may hold: regular files, of which two day
\* directories can hold one of the same name, a symlink and a subdirectory
SourceFiles ==
    {[dir |-> dd, name |-> n, kind |-> "file"] :
        dd \in SourceDayDirs, n \in {"img.jpg", "clip.mov"}}
SourceOthers ==
    {[dir |-> [year |-> Year2023, day |-> DayName(2023, 7, 15)],
      name |-> "link.jpg", kind |-> "symlink"],
     [dir |-> [year |-> Year2023, day |-> DayName(2023, 7, 15)],
      name |-> "raw", kind |-> "dir"]}
SourceTrees ==
    {fs \cup os : fs \in {x \in SUBSET SourceFiles :
                             \A e \in x : e.dir.year = Misc => e.name = "img.jpg"},
                  os \in SUBSET SourceOthers}

trips_vars ==
    <<flags, filesystem, counters, processed_file_hashes, pc, idx, log, fault_count,
      initial, env_faults, reports, unreadable, exit_status, probe>>

InitTrips ==
    /\ \E d \in BOOLEAN, c \in TripConfigs, src \in SourceTrees :
         trips = [pc |-> "start", dry_run |-> d, config |-> c, source |-> src,
                  trip_dirs |-> {}, links |-> {}, i |-> 1, todo |-> {}, linked |-> 0,
                  skipped |-> {}]
    /\ probe = NoProbe
    /\ pc = "trips"
    /\ env_faults = FALSE
    /\ dry_run = FALSE /\ copy_mode = FALSE /\ delete_source_duplicates = FALSE
    /\ dest_root = "dir"
    /\ day_dirs = [d \in DayDirs |-> "absent"]
    /\ dest_files = {}
    /\ src_files = [i \in 1..MaxFiles |-> NoFile]
    /\ src_dirs = 1..MaxFiles
    /\ processed_file_hashes = {}
    /\ files_processed = 0 /\ files_transferred = 0
    /\ files_skipped_duplicates = 0 /\ files_renamed = 0
    /\ files_errored = 0 /\ dups_removed = 0
    /\ idx = 1
    /\ log = <<>>
    /\ fault_count = 0
    /\ initial = Snapshot
    /\ reports = <<>>
    /\ unreadable = {}
    /\ exit_status = Running

\* Lines 161-176: target_dir.mkdir(parents=True, exist_ok=True), sys.exit(1)
\* if it fails; not in a dry run.
MakeTargetDir ==
    /\ trips.pc = "start"
    /\ \E fails \in (IF trips.dry_run THEN {FALSE} ELSE BOOLEAN) :
         /\ trips' = [trips EXCEPT !.pc = IF fails THEN "exited" ELSE "trip"]
         /\ exit_status' = IF fails THEN Exited(1) ELSE exit_status
    /\ UNCHANGED <<flags, filesystem, counters, processed_file_hashes, pc, idx, log,
                   fault_count, initial, env_faults, reports, unreadable, probe>>

\* Lines 179-201, the head of one iteration of the loop over the trips: the
\* trip directory is created (not in a dry run; the trip is skipped if mkdir
\* fails) and the walk of the source tree starts.
BeginTrip ==
    /\ trips.pc = "trip"
    /\ trips.i <= Len(trips.config)
    /\ \E fails \in (IF trips.dry_run THEN {FALSE} ELSE BOOLEAN) :
         LET path == current_trip_target_path(trips.config[trips.i])
         IN  trips' =
               IF fails /\ path \notin trips.trip_dirs
               THEN [trips EXCEPT !.i = @ + 1, !.skipped = @ \cup {trips.i}]
               ELSE [trips EXCEPT !.pc = "walk",
                                  !.trip_dirs = IF trips.dry_run THEN @ ELSE @ \cup {path},
                                  !.linked = 0,
                                  !.todo = {e.dir : e \in trips.source}]
    /\ UNCHANGED trips_vars

\* line 215: symlink_path_in_trip_dir.exists() or .is_symlink()
link_exists(links, path, symlink_name) ==
    \E l \in links : l.dir = path /\ l.name = symlink_name

\* Lines 201-229 on one day directory of the walk (iterdir lists them in any
\* order): the directory is passed over unless its parent is named as a year,
\* it is named as a day, and the day lies within the trip's range; then each
\* regular file of it that is not a symlink gets a symlink of its own name in
\* the trip directory, unless that name exists there.  symlink_to is taken to
\* succeed.
VisitDayDir ==
    /\ trips.pc = "walk"
    /\ \E dd \in trips.todo :
         LET trip  == trips.config[trips.i]
             path  == current_trip_target_path(trip)
             match == /\ is_year_name(dd.year)
                      /\ is_day_name(dd.day)
                      /\ date_le(parse_date(trip.start_date), parse_date(dd.day))
                      /\ date_le(parse_date(dd.day), parse_date(trip.end_date))
             photos == {e \in trips.source : e.dir = dd /\ e.kind = "file"}
             fresh  == IF match
                       THEN {e \in photos : ~link_exists(trips.links, path, e.name)}
                       ELSE {}
         IN  trips' = [trips EXCEPT
                          !.todo = @ \ {dd},
                          !.linked = @ + Cardinality(fresh),
                          !.links = IF trips.dry_run THEN @
                                    ELSE @ \cup {[dir |-> path, name |-> e.name, to |-> e] :
                                                    e \in fresh}]
    /\ UNCHANGED trips_vars

\* Lines 230-231: the walk is over, the loop goes to the next trip.
EndTrip ==
    /\ trips.pc = "walk"
    /\ trips.todo = {}
    /\ trips' = [trips EXCEPT !.pc = "trip", !.i = @ + 1]
    /\ UNCHANGED trips_vars

\* Lines 271-272: process_trips_from_config_dict returns, main returns.
EndTrips ==
    /\ trips.pc = "trip"
    /\ trips.i > Len(trips.config)
    /\ trips' = [trips EXCEPT !.pc = "done"]
    /\ exit_status' = Exited(0)
    /\ UNCHANGED <<flags, filesystem, counters, processed_file_hashes, pc, idx, log,
                   fault_count, initial, env_faults, reports, unreadable, probe>>

NextTrips == MakeTargetDir \/ BeginTrip \/ VisitDayDir \/ EndTrip \/ EndTrips

SpecTrips == InitTrips /\ [][NextTrips]_vars

(***************************************************************************)
(* src/triphistory.py: preprocess_trips_config, which main applies to the  *)
(* YAML file before the trips are linked and whose result main writes back *)
(* to the file.  In SpecPre the variable trips holds:                      *)
(*   source    the day directories source/<year>/<day> on disk             *)
(*   config    the configuration: the lists trips and missing_trips        *)
(*   found     found_dates, the dates the loop has still to process        *)
(*   run       the number of the application of main                       *)
(*   returned  the configurations written back so far, in order            *)
(***************************************************************************)
\* date + timedelta(days=n)
date_plus_days(date, n) ==
    Let(CivilFromDays(DaysFromCivil(date.y, date.mo, date.d) + n), LAMBDA c :
        [y |-> c[1], mo |-> c[2], d |-> c[3]])

\* date.strftime("%Y-%m-%d")
date_strftime(date) == DayName(date.y, date.mo, date.d)

\* the order of datetime.date values: a < b
date_lt(a, b) == ~date_le(b, a)

\* str(n) of an f-string, n >= 0
RECURSIVE str_int(_)
str_int(n) ==
    IF n < 10 THEN <<DigitChar(n)>> ELSE str_int(n \div 10) \o <<DigitChar(n % 10)>>

\* lines 75-78
date_in_trip(date, trip) ==
    /\ date_le(parse_date(trip.start_date), date)
    /\ date_le(date, parse_date(trip.end_date))

\* lines 80-83
date_adjacent_to_trip(date, trip) ==
    \/ date = date_plus_days(parse_date(trip.start_date), -1)
    \/ date = date_plus_days(parse_date(trip.end_date), 1)

\* lines 85-91
extend_trip_to_include_date(trip, date) ==
    IF date_lt(date, parse_date(trip.start_date))
    THEN [trip EXCEPT !.start_date = date_strftime(date)]
    ELSE IF date_lt(parse_date(trip.end_date), date)
    THEN [trip EXCEPT !.end_date = date_strftime(date)]
    ELSE trip

\* line 108: f"{start_str} day"
day_entry_name(start_str) == start_str \o <<" ", "d", "a", "y">>

\* line 110: f"{start_str} to {end_str} ({days} days)"
range_entry_name(start_str, end_str, days) ==
    start_str \o <<" ", "t", "o", " ">> \o end_str \o <<" ", "(">> \o str_int(days)
      \o <<" ", "d", "a", "y", "s", ")">>

\* line 113: f"{date.strftime('%Y-%m-%d')} day trip"
new_entry_name(date) == date_strftime(date) \o <<" ", "d", "a", "y", " ", "t", "r", "i", "p">>

\* line 97: start - timedelta(days=1) <= date <= end + timedelta(days=1)
touches(date, entry) ==
    /\ date_le(date_plus_days(parse_date(entry.start_date), -1), date)
    /\ date_le(date, date_plus_days(parse_date(entry.end_date), 1))

\* lines 98-110: the entry extended to the date if needed, and renamed
renamed_entry(entry, date) ==
    Let(extend_trip_to_include_date(entry, date), LAMBDA e :
        LET start == parse_date(e.start_date)
            end   == parse_date(e.end_date)
            days  == DaysFromCivil(end.y, end.mo, end.d)
                       - DaysFromCivil(start.y, start.mo, start.d) + 1
        IN  [e EXCEPT !.name = IF e.start_date = e.end_date
                                THEN day_entry_name(e.start_date)
                                ELSE range_entry_name(e.start_date, e.end_date, days)])

\* a faulty variant of update_missing_trips: a date that touches no entry is
\* dropped
update_missing_trips_no_append(missing_trips, date) ==
    Let({k \in 1..Len(missing_trips) : touches(date, missing_trips[k])}, LAMBDA at :
        IF at # {}
        THEN LET k == CHOOSE j \in at : \A l \in at : j <= l
             IN  [missing_trips EXCEPT ![k] = renamed_entry(@, date)]
        ELSE missing_trips)

\* lines 93-118: the first entry the date touches is extended and renamed;
\* without one, a new single-day entry is appended
update_missing_trips(missing_trips, date) ==
    Let({k \in 1..Len(missing_trips) : touches(date, missing_trips[k])}, LAMBDA at :
        IF at # {}
        THEN LET k == CHOOSE j \in at : \A l \in at : j <= l
             IN  [missing_trips EXCEPT ![k] = renamed_entry(@, date)]
        ELSE Append(missing_trips, [name |-> new_entry_name(date),
                                    start_date |-> date_strftime(date),
                                    end_date |-> date_strftime(date)]))

\* lines 140-150, the body of the loop over the found dates: the first trip
\* that holds the date or is adjacent to it ends the search (an adjacent one
\* is extended); a date no trip takes goes to missing_trips
process_found_date(config, date) ==
    Let({k \in 1..Len(config.trips) :
            \/ date_in_trip(date, config.trips[k])
            \/ date_adjacent_to_trip(date, config.trips[k])}, LAMBDA at :
        IF at # {}
        THEN LET k == CHOOSE j \in at : \A l \in at : j <= l
             IN  IF date_in_trip(date, config.trips[k]) THEN config
                 ELSE [config EXCEPT !.trips[k] = extend_trip_to_include_date(@, date)]
        ELSE [config EXCEPT !.missing_trips = update_missing_trips(@, date)])

\* lines 130-136: the dates of the day directories of the year directories
found_dates(source) ==
    {parse_date(dd.day) : dd \in {x \in source : is_year_name(x.year) /\ is_day_name(x.day)}}

\* the sample source trees: day directories around the end of a month, and
\* one below a directory that is not a year
PreDayDirs ==
    {[year |-> Year2023, day |-> DayName(2023, 6, 29)],
     [year |-> Year2023, day |-> DayName(2023, 6, 30)],
     [year |-> Year2023, day |-> DayName(2023, 7, 1)],
     [year |-> Year2023, day |-> DayName(2023, 7, 2)],
     [year |-> Year2023, day |-> DayName(2023, 7, 4)],
     [year |-> Misc, day |-> DayName(2023, 7, 6)]}

\* the sample configurations: at most two trips, at most one entry of
\* missing_trips left by an earlier application
PreTrips ==
    {[name |-> <<"a", "l", "p", "s">>, start_date |-> DayName(2023, 7, 1),
      end_date |-> DayName(2023, 7, 1)],
     [name |-> <<"c", "i", "t", "y">>, start_date |-> DayName(2023, 7, 2),
      end_date |-> DayName(2023, 7, 4)]}
PreMissing ==
    {<<>>,
     <<[name |-> new_entry_name(parse_date(DayName(2023, 6, 29))),
        start_date |-> DayName(2023, 6, 29), end_date |-> DayName(2023, 6, 29)]>>}
PreConfigs ==
    {[trips |-> t, missing_trips |-> m] :
        t \in UNION {[1..n -> PreTrips] : n \in 0..2}, m \in PreMissing}

InitPre ==
    /\ \E src \in SUBSET PreDayDirs, c \in PreConfigs :
         trips = [pc |-> "load", source |-> src, config |-> c, found |-> {},
                  run |-> 1, returned |-> <<>>]
    /\ probe = NoProbe
    /\ pc = "trips"
    /\ env_faults = FALSE
    /\ dry_run = FALSE /\ copy_mode = FALSE /\ delete_source_duplicates = FALSE
    /\ dest_root = "dir"
    /\ day_dirs = [d \in DayDirs |-> "absent"]
    /\ dest_files = {}
    /\ src_files = [i \in 1..MaxFiles |-> NoFile]
    /\ src_dirs = 1..MaxFiles
    /\ processed_file_hashes = {}
    /\ files_processed = 0 /\ files_transferred = 0
    /\ files_skipped_duplicates = 0 /\ files_renamed = 0
    /\ files_errored = 0 /\ dups_removed = 0
    /\ idx = 1
    /\ log = <<>>
    /\ fault_count = 0
    /\ initial = Snapshot
    /\ reports = <<>>
    /\ unreadable = {}
    /\ exit_status = Running

\* Lines 121-136: the configuration is loaded and the source tree is listed.
LoadConfig ==
    /\ trips.pc = "load"
    /\ trips' = [trips EXCEPT !.pc = "dates", !.found = found_dates(trips.source)]
    /\ UNCHANGED trips_vars

\* Lines 139-150: one iteration of "for date in sorted(found_dates)".
ProcessFoundDate ==
    /\ trips.pc = "dates"
    /\ trips.found # {}
    /\ LET date == CHOOSE d \in trips.found : \A e \in trips.found : date_le(d, e)
       IN  trips' = [trips EXCEPT !.found = @ \ {date},
                                  !.config = process_found_date(@, date)]
    /\ UNCHANGED trips_vars

\* Lines 152-154 and 263-269: preprocess_trips_config returns the
\* configuration and main writes it back to the YAML file.
WriteConfig ==
    /\ trips.pc = "dates"
    /\ trips.found = {}
    /\ trips' = [trips EXCEPT !.pc = "written", !.returned = Append(@, trips.config)]
    /\ UNCHANGED trips_vars

\* main is applied again to the file it wrote, the source tree unchanged
ApplyAgain ==
    /\ trips.pc = "written"
    /\ trips.run < MaxRuns
    /\ trips' = [trips EXCEPT !.pc = "load", !.run = @ + 1]
    /\ UNCHANGED trips_vars

NextPre == LoadConfig \/ ProcessFoundDate \/ WriteConfig \/ ApplyAgain

SpecPre == InitPre /\ [][NextPre]_vars

(***************************************************************************)
(* Date resolution on its own: get_file_datetime_from_exif and             *)
(* UTC_from_exif applied to one file, whose tags and times are built from  *)
(* parts so that a property can refer to the parts.                        *)
(***************************************************************************)
\* capture times: an afternoon, the last evening of a year, the first night
\* of March in a leap year
ProbeTimes ==
    {[y |-> 2023, mo |-> 7,  d |-> 15, h |-> 14, mi |-> 30, s |-> 0],
     [y |-> 2023, mo |-> 12, d |-> 31, h |-> 22, mi |-> 30, s |-> 0],
     [y |-> 2024, mo |-> 3,  d |-> 1,  h |-> 1,  mi |-> 30, s |-> 0]}

\* the DateTimeOriginal tag: a capture time in one of the two layouts
\* strptime is tried with, a string of neither layout, "", or no tag
ProbeOriginals ==
    {[kind |-> "parseable", T |-> T, sep |-> sep,
      str |-> DateStr(T.y, T.mo, T.d, T.h, T.mi, T.s, sep)] :
        T \in ProbeTimes, sep \in {":", "-"}}
    \cup
    {[kind |-> "unparseable", T |-> Epoch1970, sep |-> "/", str |-> str] :
        str \in {DateStr(2023, 7, 15, 14, 30, 0, "/"),
                 DateStr(2023, 13, 45, 14, 30, 0, ":")}}
    \cup
    {[kind |-> "empty", T |-> Epoch1970, sep |-> ":", str |-> <<>>],
     [kind |-> "absent", T |-> Epoch1970, sep |-> ":", str |-> None]}

\* "+HH:MM" or "-HH:MM"
SignedOffset(sign, hh, mm) == <<sign>> \o Pad(hh, 2) \o <<":">> \o Pad(mm, 2)

\* the OffsetTimeOriginal tag: well formed, no tag, "", partially blank
\* (":", " :30", ":00"), or malformed ("04:30:00", "abc", "+04", "0x:00")
ProbeOffsets ==
    {[kind |-> "wellformed", sign |-> sign, hh |-> hh, mm |-> mm,
      str |-> SignedOffset(sign, hh, mm)] :
        sign \in {"+", "-"}, hh \in {0, 1, 4, 5}, mm \in {0, 30}}
    \cup
    {[kind |-> "absent", sign |-> "+", hh |-> 0, mm |-> 0, str |-> None],
     [kind |-> "empty", sign |-> "+", hh |-> 0, mm |-> 0, str |-> <<>>]}
    \cup
    {[kind |-> "blank", sign |-> "+", hh |-> 0, mm |-> 0, str |-> str] :
        str \in {<<":">>, <<" ", ":", "3", "0">>, <<":", "0", "0">>}}
    \cup
    {[kind |-> "malformed", sign |-> "+", hh |-> 0, mm |-> 0, str |-> str] :
        str \in {<<"0", "4", ":", "3", "0", ":", "0", "0">>, <<"a", "b", "c">>,
                 <<"+", "0", "4">>, <<"0", "x", ":", "0", "0">>}}

\* st_ctime and st_mtime, seconds since 1970-01-01 00:00:00 local time:
\* 2022-01-01 00:00:00, 2023-11-14 22:13:20, 2021-12-25 00:00:00
ProbeCtimes == {1640995200, 1700000000}
ProbeMtimes == {1640995200, 1640390400}

ProbeExts == {".jpg", ".MOV", ".mp4"}

InitDate ==
    /\ probe = NoProbe
    /\ trips = NoTrips
    /\ pc = "probe"
    /\ env_faults = FALSE
    /\ dry_run = FALSE /\ copy_mode = FALSE /\ delete_source_duplicates = FALSE
    /\ dest_root = "dir"
    /\ day_dirs = [d \in DayDirs |-> "absent"]
    /\ dest_files = {}
    /\ src_files = [i \in 1..MaxFiles |-> NoFile]
    /\ src_dirs = 1..MaxFiles
    /\ processed_file_hashes = {}
    /\ files_processed = 0 /\ files_transferred = 0
    /\ files_skipped_duplicates = 0 /\ files_renamed = 0
    /\ files_errored = 0 /\ dups_removed = 0
    /\ idx = 1
    /\ log = <<>>
    /\ fault_count = 0
    /\ initial = Snapshot
    /\ reports = <<>>
    /\ unreadable = {}
    /\ exit_status = Running

\* Lines 334-343 on one file: file_dt = get_file_datetime_from_exif(path), then
\* the day directory; utc is UTC_from_exif (lines 117-162) on the two tags
\* when there is a DateTimeOriginal string.
ProbeDate ==
    /\ pc = "probe"
    /\ ~probe.done
    /\ \E original \in ProbeOriginals, offset \in ProbeOffsets,
          exif_ok \in BOOLEAN, stat_ok \in BOOLEAN,
          st_ctime \in ProbeCtimes, st_mtime \in ProbeMtimes, ext \in ProbeExts :
         \E file \in {[exif_ok |-> exif_ok, DateTimeOriginal |-> original.str,
                       OffsetTimeOriginal |-> offset.str, stat_ok |-> stat_ok,
                       st_ctime |-> st_ctime, st_mtime |-> st_mtime]} :
         \E file_dt \in {get_file_datetime_from_exif(file)} :
            probe' = [done |-> TRUE, file |-> file, ext |-> ext,
                      original |-> original, offset |-> offset,
                      file_dt |-> file_dt,
                      dir |-> IF file_dt = None THEN NoDir ELSE target_day_dir(file_dt),
                      utc |-> IF original.str = None THEN None
                              ELSE UTC_from_exif(original.str, offset.str)]
    /\ UNCHANGED <<flags, filesystem, counters, processed_file_hashes, pc, idx, log,
                   fault_count, initial, env_faults, reports, unreadable, exit_status,
                   trips>>

NextDate == ProbeDate

SpecDate == InitDate /\ [][NextDate]_vars

(***************************************************************************)
(* Properties.                                                             *)
(***************************************************************************)
\* the positions of the log whose entry is a scanned (supported) file
Scanned == {k \in 1..Len(log) : log[k].outcome # "ignored"}

\* the scanned files of content c
ScannedOf(c) == {k \in Scanned : log[k].file.content = c}

Outcome(ks, outcome) == {k \in ks : log[k].outcome = outcome}

\* a finished real run in which no filesystem call failed and no file was
\* counted as errored
CleanRealRun == pc = "done" /\ ~dry_run /\ fault_count = 0 /\ files_errored = 0

\* C1: after a real run without failures, for every content that the
\* destination did not hold at the start and that n >= 1 scanned source files
\* carry, exactly one destination file has that content, exactly one of the n
\* files was counted as transferred and the other n - 1 as skipped duplicates.
C1_OneCopyOfIdenticalContent ==
    CleanRealRun =>
        \A c \in PreContents :
            (ScannedOf(c) # {} /\ ~\E f \in initial.dest_files : f.content = c) =>
                /\ Cardinality({f \in dest_files : f.content = c}) = 1
                /\ Cardinality(Outcome(ScannedOf(c), "transferred")) = 1
                /\ Cardinality(Outcome(ScannedOf(c), "skipped"))
                       = Cardinality(ScannedOf(c)) - 1
                /\ (ScannedOf(c) = Scanned =>
                       /\ files_transferred = 1
                       /\ files_skipped_duplicates = files_processed - 1)

\* C1 witness: a clean real run over two files of one content, with different
\* names and different resolved days, the content new to the destination
C1_Witness ==
    /\ CleanRealRun
    /\ \E c \in PreContents :
         /\ ~\E f \in initial.dest_files : f.content = c
         /\ \E j, k \in ScannedOf(c) :
              /\ j # k
              /\ log[j].file.name # log[k].file.name
              /\ log[j].dir # log[k].dir
    /\ files_transferred = 1 /\ files_skipped_duplicates = 1

\* name.ext for j = 0, name_j.ext for j >= 1
Nth(name, j) == IF j = 0 THEN name ELSE suffixed(name, j)

\* the scanned files named name that resolved to day directory dir
Group(name, dir) == {k \in Scanned : log[k].file.name = name /\ log[k].dir = dir}

\* the files of a group have contents that no other scanned file and no file of
\* the destination at the start has, and nothing was at dir/name at the start
FreshGroup(name, dir) ==
    /\ Group(name, dir) # {}
    /\ \A k \in Group(name, dir) : \A j \in Scanned \ {k} :
           log[j].file.content # log[k].file.content
    /\ \A k \in Group(name, dir) :
           ~\E f \in initial.dest_files : f.content = log[k].file.content
    /\ ~path_exists(initial.dest_files, dir, name)

\* the number of files of the group processed before k
Rank(name, dir, k) == Cardinality({j \in Group(name, dir) : j < k})

\* every file of the group is in the destination under name.ext, name_1.ext,
\* ..., in the order of processing
StoredInOrder(name, dir) ==
    \A k \in Group(name, dir) :
        [dir |-> dir, name |-> Nth(name, Rank(name, dir, k)),
         content |-> log[k].file.content] \in dest_files

\* the renamed counter rose by one for each file of the group but the first
RenamedOncePerCollision(name, dir) ==
    /\ \A k \in Group(name, dir) :
           log[k].renamed = IF Rank(name, dir, k) = 0 THEN 0 ELSE 1
    /\ (Group(name, dir) = Scanned =>
           files_renamed = Cardinality(Group(name, dir)) - 1)

\* C2 as stated: in a clean real run, k same-named files of different (new)
\* contents resolving to a day directory that did not hold name.ext are stored
\* as name.ext, name_1.ext, ..., name_(k-1).ext, and the renamed counter rises
\* by k - 1.
C2_AsStated ==
    CleanRealRun =>
        \A name \in SrcNames, dir \in DayDirs :
            FreshGroup(name, dir) =>
                StoredInOrder(name, dir) /\ RenamedOncePerCollision(name, dir)

\* C2 as amended: in a clean real run every transferred file is stored under
\* the first name of name.ext, name_1.ext, name_2.ext, ... that was free in its
\* day directory (all the names before it are taken), and the renamed counter
\* rose by one for it exactly when name.ext was taken, however many names were
\* tried; so k same-named files of different new contents are stored as
\* name.ext, ..., name_(k-1).ext, with k - 1 renames, when the day directory
\* held none of these names at the start.
C2_FirstFreeName ==
    CleanRealRun =>
        /\ \A k \in Outcome(Scanned, "transferred") :
              /\ log[k].name = Nth(log[k].file.name, log[k].tries)
              /\ [dir |-> log[k].dir, name |-> log[k].name,
                  content |-> log[k].file.content] \in dest_files
              /\ \A j \in 0..(log[k].tries - 1) :
                     \E f \in dest_files :
                         /\ f.dir = log[k].dir
                         /\ f.name = Nth(log[k].file.name, j)
                         /\ f.content # log[k].file.content
              /\ log[k].renamed = IF log[k].tries = 0 THEN 0 ELSE 1
        /\ \A name \in SrcNames, dir \in DayDirs :
              (/\ FreshGroup(name, dir)
               /\ \A j \in 1..(Cardinality(Group(name, dir)) - 1) :
                      ~path_exists(initial.dest_files, dir, Nth(name, j))
               /\ \A k \in Scanned \ Group(name, dir) :
                      ~(log[k].dir = dir /\ log[k].file.name.stem = name.stem
                          /\ log[k].file.name.ext = name.ext))
              => StoredInOrder(name, dir) /\ RenamedOncePerCollision(name, dir)

\* C2 witness: a clean real run in which two same-named files of different new
\* contents went to one day directory that held none of the names, and are
\* there as name.ext and name_1.ext, with one rename
C2_Witness ==
    /\ CleanRealRun
    /\ \E name \in SrcNames, dir \in DayDirs :
         /\ FreshGroup(name, dir)
         /\ Cardinality(Group(name, dir)) = 2
         /\ ~path_exists(initial.dest_files, dir, Nth(name, 1))
         /\ StoredInOrder(name, dir)
         /\ files_renamed = 1

\* the counters a summary reports, without the count of removed duplicates
Reported(r) == <<r.scanned, r.transferred, r.skipped, r.renamed, r.errored>>

\* C3: a dry run and a real run without failures started from the same trees
\* with the same options report the same scanned, transferred, skipped
\* duplicate, renamed and errored counters.
C3_DryRunPredictsRealRun ==
    (/\ Len(reports) = 2
     /\ reports[1].dry_run /\ ~reports[2].dry_run
     /\ reports[1].initial = reports[2].initial
     /\ reports[1].faults = 0 /\ reports[2].faults = 0)
    => Reported(reports[1]) = Reported(reports[2])

\* C4: with dry_run set, at every point of the run the filesystem is as it
\* was at the start, whatever copy_mode and delete_source_duplicates are: no
\* destination root or day directory created, no file copied, moved or
\* deleted, no source directory removed.
C4_DryRunLeavesFilesystem == dry_run => Snapshot = initial

\* C4 witness: a finished dry run in move mode with delete_source_duplicates,
\* on a destination root that does not exist, that counted one file as
\* transferred and one as a skipped duplicate
C4_Witness ==
    /\ pc = "done" /\ dry_run /\ ~copy_mode /\ delete_source_duplicates
    /\ initial.dest_root = "absent"
    /\ files_transferred = 1 /\ files_skipped_duplicates = 1
    /\ Snapshot = initial

\* every file counted as transferred is gone from the source and is at its
\* target path in the destination
MovedToTarget ==
    \A k \in Outcome(Scanned, "transferred") :
        /\ ~src_files[log[k].slot].present
        /\ [dir |-> log[k].dir, name |-> log[k].name,
            content |-> log[k].file.content] \in dest_files

\* C5 as stated: at the end of a real run in copy mode every source file is
\* still in the source tree with its content; at the end of a real run in move
\* mode every file counted as transferred is gone from the source and is at
\* its target path.
C5_AsStated ==
    (pc = "done" /\ ~dry_run) =>
        /\ copy_mode => src_files = initial.src_files
        /\ ~copy_mode => MovedToTarget

\* C5 as amended: at the end of a real run in copy mode every source file is
\* still in the source tree with its content, except the files skipped as
\* duplicates when delete_source_duplicates is set, which are deleted (all
\* source files are kept without that flag); at the end of a real run in move
\* mode every file counted as transferred is gone from the source and is at
\* its target path.
C5_SourceAfterRun ==
    (pc = "done" /\ ~dry_run) =>
        /\ copy_mode =>
             \A i \in 1..MaxFiles :
                \/ src_files[i] = initial.src_files[i]
                \/ /\ delete_source_duplicates
                   /\ log[i].outcome = "skipped"
                   /\ src_files[i] = NoFile
        /\ (copy_mode /\ ~delete_source_duplicates) => src_files = initial.src_files
        /\ ~copy_mode => MovedToTarget

\* C5 witness: a finished real run in copy mode with delete_source_duplicates
\* that transferred a file, which is still in the source, and deleted a
\* duplicate
C5_Witness ==
    /\ pc = "done" /\ ~dry_run /\ copy_mode /\ delete_source_duplicates
    /\ \E j, k \in 1..MaxFiles :
         /\ log[j].outcome = "transferred"
         /\ src_files[j] = initial.src_files[j]
         /\ src_files[j].present
         /\ log[k].outcome = "skipped"
         /\ src_files[k] = NoFile

\* "YYYY-MM-DD HH:MM:SS+0000" for the capture time T moved back by the signed
\* offset, the sign applying to the hours and the minutes together
MinusSignedOffset(T, sign, hh, mm) ==
    strftime(FromSeconds(ToSeconds(T)
                           - (IF sign = "-" THEN 0 - 1 ELSE 1) * (hh * 3600 + mm * 60)),
             TRUE)

\* the day directory <<"YYYY", "YYYY-MM-DD">> of the date written at the start
\* of a timestamp string
DayDirOf(stamp) == <<SubSeq(stamp, 1, 4), SubSeq(stamp, 1, 10)>>

\* C6: for a parseable capture time T and a well-formed offset +HH:MM or
\* -HH:MM, UTC_from_exif returns T minus the signed offset, and a file with
\* these two tags is placed in the day directory of that UTC date.
C6_MinusSignedOffset ==
    (probe.done /\ probe.original.kind = "parseable"
        /\ probe.offset.kind = "wellformed") =>
        LET expected == MinusSignedOffset(probe.original.T, probe.offset.sign,
                                          probe.offset.hh, probe.offset.mm)
        IN  /\ probe.utc = expected
            /\ probe.file.exif_ok =>
                  /\ probe.file_dt = expected
                  /\ probe.dir = DayDirOf(expected)

\* C7: when the capture time parses and the offset tag is missing, empty,
\* partially blank or malformed, the resolved timestamp is the capture time
\* itself and the file is placed in the day directory of the capture date.
C7_BadOffsetIsZero ==
    (probe.done /\ probe.file.exif_ok /\ probe.original.kind = "parseable"
        /\ probe.offset.kind \in {"absent", "empty", "blank", "malformed"}) =>
        /\ probe.file_dt = strftime(probe.original.T, TRUE)
        /\ probe.dir = DayDirOf(strftime(probe.original.T, TRUE))

\* C8: for a file with a video extension, and for any other file whose
\* metadata cannot be read or holds no capture time, the resolved timestamp is
\* the last-modification time of the file, as local time, and the file is
\* placed in the day directory of that date (os.stat succeeding).
C8_FallbackIsModificationTime ==
    (probe.done /\ probe.file.stat_ok
        /\ (\/ lower(probe.ext) \in VIDEO_EXTENSIONS
            \/ ~probe.file.exif_ok
            \/ probe.original.kind \in {"absent", "empty"})) =>
        LET modified == strftime(FromSeconds(probe.file.st_mtime), FALSE)
        IN  /\ probe.file_dt # None
            /\ SubSeq(probe.file_dt, 1, 19) = modified
            /\ probe.dir = DayDirOf(modified)

\* the destination files of the start whose digest the scan of a real run
\* puts in the index: supported extension, readable
IndexedAtStartup ==
    {f \in initial.dest_files : is_supported(f.name) /\ f \notin unreadable}

\* the run obtained the digest of the source file of log entry e: the file was
\* scanned, and neither os.stat nor the read for the digest failed
DigestComputed(e) ==
    e.outcome # "ignored" /\ ~(e.outcome = "errored" /\ e.fault \in {"stat", "hash"})

\* C9: in a real run, a source file whose digest is that of a readable file with
\* a supported extension that was anywhere under the destination root at the
\* start is counted as a skipped duplicate, whatever its name and its day
\* directory, and no file with its content is written to the destination.
C9_DuplicateOfDestinationSkipped ==
    (~dry_run /\ pc \in {"loop", "done"}) =>
        \A k \in 1..Len(log) :
            (/\ DigestComputed(log[k])
             /\ \E f \in IndexedAtStartup : f.content = log[k].file.content)
            => /\ log[k].outcome = "skipped"
               /\ \A g \in dest_files \ initial.dest_files :
                      g.content.id # log[k].file.content.id

\* C9 witness: a real run skipped a source file whose content was at the start
\* in the destination under another name and in another day directory
C9_Witness ==
    /\ ~dry_run /\ pc = "done"
    /\ \E k \in 1..Len(log) : \E f \in IndexedAtStartup :
         /\ log[k].outcome = "skipped"
         /\ f.content = log[k].file.content
         /\ f.name # log[k].file.name
         /\ f.dir # log[k].dir
         /\ files_skipped_duplicates >= 1

TransferFaults == {"transfer_nothing", "transfer_truncated", "transfer_complete"}

\* the step is an iteration of the loop in which the transfer failed
TransferFailed ==
    /\ Len(log') = Len(log) + 1
    /\ log'[Len(log')].fault \in TransferFaults

\* C10: when the transfer of a file fails in a real run, the errored counter
\* rises by one, the transferred counter and the index of digests stay as they
\* are, the source file stays where it is, and the loop goes on to the next
\* source entry.
C10_TransferFailure ==
    [][TransferFailed =>
          /\ ~dry_run
          /\ files_errored' = files_errored + 1
          /\ files_transferred' = files_transferred
          /\ processed_file_hashes' = processed_file_hashes
          /\ src_files' = src_files
          /\ src_files[idx].present
          /\ pc' = "loop" /\ idx' = idx + 1]_vars

\* C10 witness: the transfer of the first file failed, the file is still in
\* the source, and the run went on and transferred the second file
C10_Witness ==
    /\ pc = "done" /\ ~dry_run
    /\ Len(log) = 2
    /\ log[1].fault \in TransferFaults
    /\ src_files[1] = log[1].file
    /\ log[2].outcome = "transferred"
    /\ files_errored = 1 /\ files_transferred = 1

\* C11: when the source directory is missing or is not a directory, or the
\* destination root cannot be created, no file is processed and the process
\* terminates with a non-zero exit status.
C11_StructuralFailureExitsNonZero ==
    pc = "aborted" =>
        /\ files_processed = 0 /\ log = <<>>
        /\ filesystem = <<initial.dest_root, initial.day_dirs, initial.dest_files,
                          initial.src_files, initial.src_dirs>>
        /\ exit_status # Running
        /\ exit_status # Exited(0)

\* between two iterations of the loop the counters count the log: every
\* scanned file is in exactly one of transferred, skipped and errored
CountedOnce ==
    /\ files_processed = Cardinality(Scanned)
    /\ files_transferred = Cardinality(Outcome(Scanned, "transferred"))
    /\ files_skipped_duplicates = Cardinality(Outcome(Scanned, "skipped"))
    /\ files_errored = Cardinality(Outcome(Scanned, "errored"))
    /\ files_processed = files_transferred + files_skipped_duplicates + files_errored

\* C12: whatever fails for a file (date, digest, day directory, transfer,
\* deletion of a duplicate), the run that entered the loop goes through all the
\* source entries and reaches the summary, and every scanned file is counted in
\* exactly one of transferred, skipped duplicate and errored, so that at the
\* summary scanned = transferred + skipped duplicate + errored.
C12_EveryFileCountedOnce ==
    /\ [](pc \in {"loop", "done"} => CountedOnce)
    /\ [](pc = "done" => Len(log) = MaxFiles /\ Len(reports) = 1
                          /\ reports[1].scanned = reports[1].transferred
                                 + reports[1].skipped + reports[1].errored)
    /\ (pc = "loop") ~> (pc = "done")

\* C12 witness: a run that reached the summary after something failed for its
\* first file, counted as errored, and that transferred its second file
C12_Witness ==
    /\ pc = "done" /\ Len(log) = 2
    /\ log[1].outcome = "errored" /\ log[1].fault # "none"
    /\ log[2].outcome = "transferred"
    /\ files_processed = 2 /\ files_errored = 1 /\ files_transferred = 1

\* the source files skipped as duplicates that are gone from the source
DeletedDuplicates == {k \in Outcome(Scanned, "skipped") : ~src_files[k].present}

\* C13: at the end of a real run with delete_source_duplicates, every source
\* file skipped as a duplicate, through the index or through the comparison
\* with the file of its name in the day directory, is deleted unless the
\* deletion failed, and dups_removed is the number of source files deleted;
\* without the flag, or in a dry run, no such file is deleted and dups_removed
\* is 0.
C13_RemovedCounterCountsDeletions ==
    pc = "done" =>
        IF delete_source_duplicates /\ ~dry_run
        THEN /\ \A k \in Outcome(Scanned, "skipped") :
                   log[k].fault = "remove" \/ ~src_files[k].present
             /\ dups_removed = Cardinality(DeletedDuplicates)
        ELSE /\ \A k \in Outcome(Scanned, "skipped") : src_files[k] = log[k].file
             /\ dups_removed = 0

\* C14: at every point of a real run every digest of processed_file_hashes is
\* the digest of a file that is under the destination root at that point; at
\* every point of a dry run every digest of the index is the digest of a file
\* that the run has reported as one it would transfer.
C14_IndexedDigestHasFile ==
    \A h \in processed_file_hashes :
        IF dry_run
        THEN \E k \in Outcome(Scanned, "transferred") :
                 get_file_hash(log[k].file.content) = h
        ELSE \E f \in dest_files : get_file_hash(f.content) = h

\* C14 witness: a real run whose index holds the digest of a file found at the
\* start and the digest of a file it transferred, after a transfer that failed
C14_Witness ==
    /\ ~dry_run /\ pc = "done"
    /\ \E f \in initial.dest_files : get_file_hash(f.content) \in processed_file_hashes
    /\ \E k \in Outcome(Scanned, "transferred") :
         /\ get_file_hash(log[k].file.content) \in processed_file_hashes
         /\ \A f \in initial.dest_files : f.content # log[k].file.content
    /\ \E k \in Outcome(Scanned, "errored") :
         /\ log[k].fault \in TransferFaults
         /\ get_file_hash(log[k].file.content) \notin processed_file_hashes

\* str.lower() on the names the model uses
LowerName(name) ==
    [name EXCEPT !.stem = IF @ = "IMG" THEN "img" ELSE @, !.ext = lower(@)]

\* C15: in a clean real run, when two source files of different contents, new
\* to the destination, have names that differ in letter case only and resolve
\* to the same day directory, which held no file of that name in any case, the
\* first is stored under its name, the second under a suffixed name and never
\* under its unsuffixed name, and the renamed counter rises by one.
C15_CaseInsensitiveCollision ==
    CleanRealRun =>
        \A j, k \in Scanned :
            (/\ j < k
             /\ log[j].file.name # log[k].file.name
             /\ LowerName(log[j].file.name) = LowerName(log[k].file.name)
             /\ log[j].dir = log[k].dir
             /\ log[j].file.content # log[k].file.content
             /\ \A f \in initial.dest_files :
                    /\ f.content \notin {log[j].file.content, log[k].file.content}
                    /\ ~(f.dir = log[k].dir
                           /\ LowerName(f.name).stem = LowerName(log[k].file.name).stem))
            => /\ [dir |-> log[j].dir, name |-> log[j].file.name,
                   content |-> log[j].file.content] \in dest_files
               /\ log[k].name.sfx # <<>>
               /\ ~\E f \in dest_files :
                      f.name = log[k].file.name /\ f.content = log[k].file.content
               /\ files_renamed = 1

\* C16: date resolution never fails: for every scanned source file
\* get_file_datetime_from_exif yields a timestamp, so the day directory of the
\* file is determined and the file is not counted as errored for its date.
C16_DateAlwaysResolved ==
    \A k \in Scanned :
        /\ log[k].dir # NoDir
        /\ ~(log[k].outcome = "errored" /\ log[k].fault = "stat")

\* "1970-01-01 00:00:00"
Stamp1970 ==
    <<"1", "9", "7", "0", "-", "0", "1", "-", "0", "1", " ",
      "0", "0", ":", "0", "0", ":", "0", "0">>

\* every capture time string of neither layout resolves to 1970-01-01
\* 00:00:00, whatever the offset tag
UnparseableResolvesToEpoch ==
    /\ ResolvedDate["bad", FALSE] = Stamp1970
    /\ \A o \in ProbeOriginals : \A off \in ProbeOffsets :
           o.kind = "unparseable" => UTC_from_exif(o.str, off.str) = Stamp1970

WrittenByRun == dest_files \ initial.dest_files

\* C18: SIGINT or SIGHUP delivered during a real run never leaves a partially
\* placed file: once the process has stopped, no truncated file exists under the
\* destination, and every scanned source file is either whole at its target
\* path or still in the source as it was.
C18_InterruptLeavesNoPartialFile ==
    (~dry_run /\ pc \in {"done", "killed"}) =>
        /\ \A f \in WrittenByRun : f.content.whole
        /\ \A k \in Scanned :
             \/ log[k].outcome = "skipped"
             \/ /\ log[k].outcome = "transferred"
                /\ [dir |-> log[k].dir, name |-> log[k].name,
                    content |-> log[k].file.content] \in dest_files
             \/ src_files[log[k].slot] = log[k].file

\* C20: once SIGINT or SIGHUP is delivered during the loop the run stops: the
\* file it was working on is not left half written, the loop handles no further
\* source file, and the process terminates.
C20_InterruptStopsRun ==
    \A k \in 1..Len(log) :
        log[k].fault \in SignalPoints =>
            /\ k = Len(log)
            /\ pc = "killed"
            /\ exit_status # Running
            /\ \A f \in WrittenByRun : f.content.whole

\* the regular, non-symlink files of the source tree that lie in a day
\* directory of a year directory whose date is within the range of the trip
InRange(trip) ==
    {e \in trips.source :
        /\ e.kind = "file"
        /\ is_year_name(e.dir.year) /\ is_day_name(e.dir.day)
        /\ date_le(parse_date(trip.start_date), parse_date(e.dir.day))
        /\ date_le(parse_date(e.dir.day), parse_date(trip.end_date))}

\* the name of a trip with every "/" and "\" replaced by "_"
Sanitized(name) ==
    [k \in 1..Len(name) |-> IF name[k] \in {"/", "\\"} THEN "_" ELSE name[k]]

\* C19: after a run that is not a dry run, each configured trip whose
\* directories could be created has its directory target/YYYY/<sanitized name>,
\* which holds a symlink to every regular non-symlink file of every day
\* directory within the trip's range, also when two of these day directories
\* hold files of the same name, and holds no link to anything else.
C19_TripLinksEveryFileInRange ==
    (trips.pc = "done" /\ ~trips.dry_run) =>
        \A n \in (1..Len(trips.config)) \ trips.skipped :
            LET trip == trips.config[n]
                path == <<SubSeq(trip.start_date, 1, 4), Sanitized(trip.name)>>
            IN  /\ path \in trips.trip_dirs
                /\ \A e \in InRange(trip) :
                      \E l \in trips.links : l.dir = path /\ l.to = e
                /\ \A l \in trips.links : l.dir = path => l.to \in InRange(trip)

\* the source directories that hold neither a file nor a subdirectory
EmptySourceDirs ==
    {k \in src_dirs : ~holds_file(src_files, k) /\ (k + 1) \notin src_dirs}

\* C21: after a real run with delete_source_duplicates set in which no call
\* failed, no directory below the source root is left empty, also where a
\* directory held nothing but subdirectories that the pruning removed; a
\* directory that holds a file or a remaining subdirectory is kept; in a dry run
\* or without the flag no directory is removed.
C21_EmptyDirectoriesPruned ==
    pc = "done" =>
        IF delete_source_duplicates /\ ~dry_run
        THEN /\ \A k \in EmptySourceDirs : k = 1
             /\ \A k \in initial.src_dirs :
                   (holds_file(src_files, k) \/ (k + 1) \in src_dirs) => k \in src_dirs
        ELSE src_dirs = initial.src_dirs

\* C22: the walk of the source processes regular files only: a symlink, also
\* one that points to a regular file with a supported extension, and a
\* directory are passed over: not counted as scanned, not hashed, not
\* transferred and not deleted.
C22_OnlyRegularFilesProcessed ==
    /\ \A k \in 1..Len(log) :
          EntryKind(log[k].file) # "file" =>
              /\ log[k].outcome = "ignored"
              /\ src_files[log[k].slot] = log[k].file
    /\ files_processed =
          Cardinality({k \in 1..Len(log) : log[k].file.present
                                           /\ EntryKind(log[k].file) = "file"})

\* the dates of the day directories YYYY-MM-DD found under source/YYYY
DatesOnDisk ==
    {parse_date(dd.day) : dd \in {x \in trips.source : is_year_name(x.year)
                                                       /\ is_day_name(x.day)}}

\* the date lies within the inclusive range of an entry of the list
CoveredBy(date, entries) ==
    \E k \in 1..Len(entries) :
        /\ DaysFromCivil(parse_date(entries[k].start_date).y,
                         parse_date(entries[k].start_date).mo,
                         parse_date(entries[k].start_date).d)
             <= DaysFromCivil(date.y, date.mo, date.d)
        /\ DaysFromCivil(date.y, date.mo, date.d)
             <= DaysFromCivil(parse_date(entries[k].end_date).y,
                              parse_date(entries[k].end_date).mo,
                              parse_date(entries[k].end_date).d)

\* C23: in the configuration preprocess_trips_config returns, the date of
\* every YYYY-MM-DD directory under source/YYYY lies within the range of an
\* entry of trips or of missing_trips; a date within no trip lies within an
\* entry of missing_trips.  No entry is dropped: the trips keep their number
\* and names, and missing_trips keeps the entries it had.
C23_FoundDatesCovered ==
    trips.pc = "written" =>
        LET config == trips.returned[Len(trips.returned)]
        IN  /\ \A date \in DatesOnDisk :
                  \/ CoveredBy(date, config.trips)
                  \/ CoveredBy(date, config.missing_trips)
            /\ Len(config.trips) = Len(trips.config.trips)
            /\ \A date \in DatesOnDisk :
                  ~CoveredBy(date, config.trips) => CoveredBy(date, config.missing_trips)

\* C23 witness: the first application extended the entry of missing_trips it
\* was given and appended a single-day entry for another date
C23_Witness ==
    /\ trips.pc = "written"
    /\ Len(trips.returned) = 1
    /\ Len(trips.returned[1].missing_trips) = 2
    /\ trips.returned[1].missing_trips[1].start_date
         # trips.returned[1].missing_trips[1].end_date
    /\ trips.returned[1].missing_trips[2].start_date
         = trips.returned[1].missing_trips[2].end_date
    /\ ~CoveredBy(parse_date(trips.returned[1].missing_trips[2].start_date),
                  trips.returned[1].trips)

\* C26: preprocess_trips_config applied to the configuration it produced, the
\* source tree unchanged, yields the same trips and missing_trips: same names,
\* start dates and end dates.
C26_PreprocessIdempotent ==
    (trips.pc = "written" /\ Len(trips.returned) = 2) =>
        /\ trips.returned[2].trips = trips.returned[1].trips
        /\ trips.returned[2].missing_trips = trips.returned[1].missing_trips

\* the entry the step has added to the log is a transfer of a real run,
\* completed or failed
HandedToTransfer(e) ==
    /\ ~dry_run
    /\ \/ e.outcome = "transferred"
       \/ e.outcome = "errored" /\ e.fault \in TransferFaults

\* C24: in a real run the target path handed to the copy or move operation
\* names no existing file, and no step of organize_media removes a file of the
\* destination or changes its content, whether the file was there at the start
\* or was placed earlier in the run; no two files share a path.
C24_NoOverwrite ==
    /\ [](\A f, g \in dest_files : (f.dir = g.dir /\ f.name = g.name) => f = g)
    /\ [][/\ \A f \in dest_files : f \in dest_files'
          /\ Len(log') = Len(log) + 1 =>
                (HandedToTransfer(log'[Len(log')]) =>
                    ~\E f \in dest_files : /\ f.dir = log'[Len(log')].dir
                                           /\ f.name = log'[Len(log')].name)]_vars

\* C24 witness: a real run stored a file under a suffixed name because a file
\* of other content was at its path from the start, and that file is still there
C24_Witness ==
    /\ pc = "done" /\ ~dry_run
    /\ \E k \in Scanned :
         /\ log[k].outcome = "transferred"
         /\ log[k].tries >= 1
         /\ \E f \in initial.dest_files :
              /\ f.dir = log[k].dir /\ f.name = log[k].file.name
              /\ f.content # log[k].file.content
              /\ f \in dest_files
         /\ [dir |-> log[k].dir, name |-> log[k].name,
             content |-> log[k].file.content] \in dest_files

\* the digests of the files under the source, and under the destination
SourceDigests(files) ==
    {get_file_hash(files[i].content) : i \in {j \in 1..MaxFiles : files[j].present}}
DestDigests(files) == {get_file_hash(f.content) : f \in files}

\* the digests of the supported files the source held when the run started
SupportedAtStart ==
    {get_file_hash(initial.src_files[i].content) :
        i \in {j \in 1..MaxFiles : /\ initial.src_files[j].present
                                   /\ is_supported(initial.src_files[j].name)}}

\* C25: in every state of a real run, in copy or move mode, with or without
\* delete_source_duplicates, with failing filesystem calls, every digest of a
\* supported source file of the start is the digest of a file under the source
\* or under the destination; a step that takes a file away from the source
\* leaves a file of its digest under the destination, and a source file deleted
\* as a duplicate had one there before the step.
C25_NoContentLost ==
    /\ [](~dry_run =>
             SupportedAtStart \subseteq (SourceDigests(src_files) \cup DestDigests(dest_files)))
    /\ [][~dry_run =>
            \A i \in 1..MaxFiles :
               (src_files[i].present /\ ~src_files'[i].present) =>
                  /\ get_file_hash(src_files[i].content) \in DestDigests(dest_files')
                  /\ log'[Len(log')].outcome = "skipped" =>
                        get_file_hash(src_files[i].content) \in DestDigests(dest_files)]_vars

\* C25 witness: a real run with delete_source_duplicates has deleted a source
\* file whose content the destination holds, and a transfer has failed on
\* another file, which is still in the source
C25_Witness ==
    /\ pc = "done" /\ ~dry_run /\ delete_source_duplicates
    /\ \E k \in Outcome(Scanned, "skipped") :
         /\ ~src_files[log[k].slot].present
         /\ get_file_hash(log[k].file.content) \in DestDigests(dest_files)
    /\ \E j \in Outcome(Scanned, "errored") :
         /\ log[j].fault \in TransferFaults
         /\ src_files[log[j].slot] = log[j].file

\* the first of two runs was a real run in copy mode in which no call failed
\* and no file was counted as errored, and the second was a real run
CopyRunThenRealRun ==
    /\ Len(reports) = 2
    /\ ~reports[1].dry_run /\ reports[1].copy_mode
    /\ reports[1].faults = 0 /\ reports[1].errored = 0
    /\ ~reports[2].dry_run /\ reports[2].faults = 0

\* C27: after a real run in copy mode without failure, a second real run on
\* the same source and destination transfers nothing, renames nothing, counts
\* every file it scans as a skipped duplicate and leaves the destination as the
\* first run left it.
C27_RerunIsIdempotent ==
    CopyRunThenRealRun =>
        /\ reports[2].transferred = 0
        /\ reports[2].renamed = 0
        /\ reports[2].errored = 0
        /\ reports[2].skipped = reports[2].scanned
        /\ dest_root = reports[2].initial.dest_root
        /\ day_dirs = reports[2].initial.day_dirs
        /\ dest_files = reports[2].initial.dest_files

\* C27 witness: the first run copied two files, one under a suffixed name, and
\* the second run scanned both and skipped both
C27_Witness ==
    /\ CopyRunThenRealRun
    /\ pc = "done"
    /\ reports[1].transferred = 2 /\ reports[1].renamed = 1
    /\ reports[2].scanned = 2 /\ reports[2].skipped = 2
    /\ dest_files = reports[2].initial.dest_files

=============================================================================
